---- MODULE Spec2Model ----
(***************************************************************************)
(* A model of waifufy: the comment stripper, the minimal C++ tokenizer,    *)
(* the separator oracle needs_separator, join_tokens_min_sep, the art      *)
(* parser parse_art_to_density and the dynamic-programming convert_layout  *)
(* of waifufy_core.cpp, main of main.cpp, and the greedy convert_layout of *)
(* the repository's src/waifufy_core.cpp.                                  *)
(*                                                                         *)
(* Text is a sequence of one-character strings.  The source indexes text   *)
(* from 0; At(s, i) reads the source's s[i].                               *)
(***************************************************************************)
EXTENDS Integers, Sequences, FiniteSets, TLC

VARIABLES
    pc,        \* where the run stands
    code_text, \* main: the source text read from the code file
    tokens,    \* tokenize_minimal_cpp(strip_comments_preserve_literals(code_text))
    W, H,      \* the art's width and height
    dens01,    \* the art's 0/1 densities, H rows of W cells
    zero,      \* the density map: the characters of density 0
    stream,    \* the raw values the random engine yields, repeated
    rngpos,    \* the random engine's position in stream
    taken,     \* convert_layout: tokens emitted so far
    row,       \* convert_layout: rows emitted so far
    waifu,     \* convert_layout: the output, one line per row emitted
    blobs,     \* history: the blobs of every line of waifu
    w_eff,     \* convert_layout: W_eff of the overflow line packed last
    sa, sb,    \* needs_separator: the two arguments
    sres,      \* needs_separator: the result
    joined,    \* join_tokens_min_sep(tokens)
    tokens2,   \* the tokens of a second tokenization
    pieces,    \* history: the literals, comments and plain text code_text is made of
    code_nc,   \* main: strip_comments_preserve_literals(code_text)
    code_nc2,  \* strip_comments_preserve_literals(code_nc)
    art_text,  \* main: the text read from the art file
    width,     \* Args: the --width override, or None
    height,    \* Args: the --height override, or None
    art,       \* main: the Art parse_art_to_density returned
    argv,      \* the command line: whether the three paths are given, the option texts
    code_file, \* the file at --code: its text, or Missing
    art_file,  \* the file at --art: its text, or Missing
    out_ok,    \* whether the --out path can be opened for writing
    ndebug,    \* whether the build defines NDEBUG
    exit_code, \* the exit status of the process, or Running
    written,   \* the bytes written to the --out path, or None
    dp,        \* convert_layout: the scores of the row solved last
    back_point, \* convert_layout: the back-pointers of the row solved last
    optimal_state, \* convert_layout: the state accepted for the row solved last
    cur_col,   \* the greedy convert_layout: col, the column reached on the current line
    cur_line,  \* the greedy convert_layout: line, the current line
    prev_tok   \* the greedy convert_layout: prev, the token placed last on the line

stripvars == <<pieces, code_nc, code_nc2>>

artvars == <<art_text, width, height, art>>

clivars == <<argv, code_file, art_file, out_ok, ndebug, exit_code, written>>

dpvars == <<dp, back_point, optimal_state>>

greedyvars == <<cur_col, cur_line, prev_tok>>

vars == <<pc, code_text, tokens, W, H, dens01, zero, stream, rngpos, taken, row, waifu, blobs,
          w_eff, sa, sb, sres, joined, tokens2, stripvars, artvars, clivars,
          dpvars, greedyvars>>

(***************************************************************************)
(* Characters and <cctype> classes (C locale).                             *)
(***************************************************************************)
NUL == "\\0"

Lower == {"a","b","c","d","e","f","g","h","i","j","k","l","m",
          "n","o","p","q","r","s","t","u","v","w","x","y","z"}

Upper == {"A","B","C","D","E","F","G","H","I","J","K","L","M",
          "N","O","P","Q","R","S","T","U","V","W","X","Y","Z"}

Digit == {"0","1","2","3","4","5","6","7","8","9"}

WhiteSpace == {" ", "\t", "\n", "\r", "\f"}

isalpha(c) == c \in Lower \/ c \in Upper

isdigit(c) == c \in Digit

isalnum(c) == isalpha(c) \/ isdigit(c)

isspace(c) == c \in WhiteSpace

is_ident_start(c) == isalpha(c) \/ c = "_"

is_ident_char(c) == isalnum(c) \/ c = "_"

\* s[i] of the source (0-based); reading s[size()] of the underlying
\* std::string gives its terminating NUL.
At(s, i) == IF i >= 0 /\ i < Len(s) THEN s[i + 1] ELSE NUL

\* s.substr(b, n): at most n characters starting at index b.
Substr(s, b, n) ==
    LET e == IF b + n > Len(s) THEN Len(s) ELSE b + n
    IN  IF b >= Len(s) THEN << >> ELSE SubSeq(s, b + 1, e)

\* s.substr(b, e - b) for 0 <= b <= e <= size.
Slice(s, b, e) == SubSeq(s, b + 1, e)

(***************************************************************************)
(* strip_comments_preserve_literals                                        *)
(***************************************************************************)
\* The delimiter loop of a raw-string opener: from index j, collect the
\* delimiter up to '(' ; stop at ')', '\', whitespace, or once the
\* delimiter collected so far is longer than 16.
RECURSIVE RawDelimScan(_, _, _)
RawDelimScan(code, j, delim) ==
    IF j < Len(code) /\ At(code, j) # "("
    THEN LET d == At(code, j)
         IN  IF d = ")" \/ d = "\\" \/ isspace(d) \/ Len(delim) > 16
             THEN [j |-> j, delim |-> delim]
             ELSE RawDelimScan(code, j + 1, Append(delim, d))
    ELSE [j |-> j, delim |-> delim]

\* Length of a raw-string prefix (u8R" uR" UR" LR") at index i, 0 if none.
RawPrefixLen(code, i) ==
    LET c == At(code, i)
        n == IF i + 1 < Len(code) THEN At(code, i + 1) ELSE NUL
    IN  IF c = "u" /\ n = "8" /\ i + 2 < Len(code) /\ At(code, i + 2) = "R"
           /\ i + 3 < Len(code) /\ At(code, i + 3) = "\""
        THEN 4
        ELSE IF /\ c \in {"u", "U", "L"} /\ n = "R"
                /\ i + 2 < Len(code) /\ At(code, i + 2) = "\""
             THEN 3
             ELSE 0

\* case Normal, after the raw-string openers were tried.
StripNormalPlain(code, s, c, n) ==
    IF c = "/" /\ n = "*" THEN [s EXCEPT !.st = "InBlock", !.i = s.i + 2]
    ELSE IF c = "/" /\ n = "/" THEN [s EXCEPT !.st = "InLine", !.i = s.i + 2]
    ELSE IF c = "\""
    THEN [s EXCEPT !.st = "InStr", !.out = Append(s.out, c), !.i = s.i + 1, !.esc = FALSE]
    ELSE IF c = "'"
    THEN [s EXCEPT !.st = "InChar", !.out = Append(s.out, c), !.i = s.i + 1, !.esc = FALSE]
    ELSE [s EXCEPT !.out = Append(s.out, c), !.i = s.i + 1]

\* case Normal, the prefixed raw-string opener and what follows it.
StripNormalPrefixed(code, s, c, n) ==
    LET i == s.i
        p == RawPrefixLen(code, i)
        r == RawDelimScan(code, i + p, << >>)
    IN  IF p > 0
        THEN IF r.j < Len(code) /\ At(code, r.j) = "("
             THEN [s EXCEPT !.st = "InRaw",
                            !.out = s.out \o Substr(code, i, p) \o r.delim \o <<"(">>,
                            !.raw_delim = r.delim,
                            !.i = r.j + 1]
             ELSE StripNormalPlain(code, [s EXCEPT !.raw_delim = r.delim], c, n)
        ELSE StripNormalPlain(code, s, c, n)

StripNormal(code, s, c, n) ==
    LET i == s.i
        r == RawDelimScan(code, i + 2, << >>)
    IN  IF c = "R" /\ n = "\""
        THEN IF r.j < Len(code) /\ At(code, r.j) = "("
             THEN [s EXCEPT !.st = "InRaw",
                            !.out = s.out \o <<"R", "\"">> \o r.delim \o <<"(">>,
                            !.raw_delim = r.delim,
                            !.i = r.j + 1]
             ELSE StripNormalPrefixed(code, [s EXCEPT !.raw_delim = r.delim], c, n)
        ELSE StripNormalPrefixed(code, s, c, n)

\* case InStr / InChar with closing quote q.
StripQuoted(s, c, q) ==
    LET o == [s EXCEPT !.out = Append(s.out, c), !.i = s.i + 1]
    IN  IF s.esc THEN [o EXCEPT !.esc = FALSE]
        ELSE IF c = "\\" THEN [o EXCEPT !.esc = TRUE]
        ELSE IF c = q THEN [o EXCEPT !.st = "Normal"]
        ELSE o

StripInRaw(code, s, c) ==
    LET i == s.i
        need == Len(s.raw_delim)
    IN  IF /\ c = ")" /\ s.raw_delim # << >>
           /\ i + 1 + need < Len(code)
           /\ Substr(code, i + 1, need) = s.raw_delim
           /\ At(code, i + 1 + need) = "\""
        THEN [s EXCEPT !.out = s.out \o <<")">> \o s.raw_delim \o <<"\"">>,
                       !.i = i + 2 + need,
                       !.st = "Normal"]
        ELSE [s EXCEPT !.out = Append(s.out, c), !.i = i + 1]

\* One iteration of the for loop.
StripStep(code, s) ==
    LET c == At(code, s.i)
        n == IF s.i + 1 < Len(code) THEN At(code, s.i + 1) ELSE NUL
    IN  CASE s.st = "Normal"  -> StripNormal(code, s, c, n)
          [] s.st = "InBlock" -> IF c = "*" /\ n = "/"
                                 THEN [s EXCEPT !.st = "Normal", !.i = s.i + 2]
                                 ELSE [s EXCEPT !.i = s.i + 1]
          [] s.st = "InLine"  -> IF c = "\n"
                                 THEN [s EXCEPT !.st = "Normal", !.out = Append(s.out, c),
                                                !.i = s.i + 1]
                                 ELSE [s EXCEPT !.i = s.i + 1]
          [] s.st = "InStr"   -> StripQuoted(s, c, "\"")
          [] s.st = "InChar"  -> StripQuoted(s, c, "'")
          [] s.st = "InRaw"   -> StripInRaw(code, s, c)

\* The for loop: n further iterations from s, or fewer when i reaches the
\* end first (the iterations are split in halves to keep evaluation shallow).
RECURSIVE StripLoop(_, _, _)
StripLoop(code, s, n) ==
    IF n <= 0 \/ s.i >= Len(code) THEN s
    ELSE IF n = 1 THEN StripStep(code, s)
    ELSE StripLoop(code, StripLoop(code, s, n \div 2), n - (n \div 2))

StripInit ==
    [st |-> "Normal", i |-> 0, out |-> << >>, raw_delim |-> << >>, esc |-> FALSE]

\* The scanner's whole run over code: its final state and its output.
\* Every iteration advances i, so Len(code) iterations reach the end.
StripRun(code) == StripLoop(code, StripInit, Len(code))

strip_comments_preserve_literals(code) == StripRun(code).out

(***************************************************************************)
(* tokenize_minimal_cpp                                                    *)
(***************************************************************************)
starts_with(s, p) == Len(s) >= Len(p) /\ SubSeq(s, 1, Len(p)) = p

\* The delimiter loop of parse_raw_string: k at the '(' or at the end, or
\* bad when a forbidden character or an over-long delimiter is met.
RECURSIVE RawDelimParse(_, _, _)
RawDelimParse(s, k, delim) ==
    IF k < Len(s) /\ At(s, k) # "("
    THEN LET d == At(s, k)
         IN  IF d = ")" \/ d = "\\" \/ isspace(d) \/ Len(delim) > 16
             THEN [bad |-> TRUE, k |-> k, delim |-> delim]
             ELSE RawDelimParse(s, k + 1, Append(delim, d))
    ELSE [bad |-> FALSE, k |-> k, delim |-> delim]

\* The search for )delim" from pos; the end of the text when none is found.
RECURSIVE RawCloseFind(_, _, _)
RawCloseFind(s, pos, delim) ==
    IF pos < Len(s)
    THEN IF /\ At(s, pos) = ")"
            /\ pos + 1 + Len(delim) < Len(s)
            /\ Substr(s, pos + 1, Len(delim)) = delim
            /\ At(s, pos + 1 + Len(delim)) = "\""
         THEN pos + 2 + Len(delim)
         ELSE RawCloseFind(s, pos + 1, delim)
    ELSE Len(s)

\* parse_raw_string(s, i, j): [ok, j].
parse_raw_string(s, i) ==
    IF ~(i + 1 < Len(s) /\ At(s, i) = "R" /\ At(s, i + 1) = "\"")
    THEN [ok |-> FALSE, j |-> 0]
    ELSE LET r == RawDelimParse(s, i + 2, << >>)
         IN  IF r.bad THEN [ok |-> FALSE, j |-> 0]
             ELSE IF r.k >= Len(s) \/ At(s, r.k) # "(" THEN [ok |-> FALSE, j |-> 0]
             ELSE [ok |-> TRUE, j |-> RawCloseFind(s, r.k + 1, r.delim)]

\* The lambda test(pfx, off) of parse_prefixed_raw.
PrefixedRawTest(s, i, pfx, off) ==
    IF /\ starts_with(Substr(s, i, Len(s)), pfx)
       /\ i + off < Len(s) /\ At(s, i + off) = "R"
       /\ i + off + 1 < Len(s) /\ At(s, i + off + 1) = "\""
    THEN parse_raw_string(s, i + off)
    ELSE [ok |-> FALSE, j |-> 0]

parse_prefixed_raw(s, i) ==
    LET t1 == PrefixedRawTest(s, i, <<"u", "8">>, 2)
        t2 == PrefixedRawTest(s, i, <<"u">>, 1)
        t3 == PrefixedRawTest(s, i, <<"U">>, 1)
        t4 == PrefixedRawTest(s, i, <<"L">>, 1)
    IN  IF t1.ok THEN t1 ELSE IF t2.ok THEN t2 ELSE IF t3.ok THEN t3 ELSE t4

\* A variant of PUNCTS that lists the punctuators of two characters first.
PUNCTSShortFirst ==
    << <<":",":">>, <<"-",">">>,
       <<"+","+">>, <<"-","-">>, <<"<","<">>, <<">",">">>, <<"&","&">>, <<"|","|">>,
       <<"=","=">>, <<"!","=">>, <<"<","=">>, <<">","=">>, <<"+","=">>, <<"-","=">>,
       <<"*","=">>, <<"/","=">>, <<"%","=">>, <<"&","=">>, <<"|","=">>, <<"^","=">>,
       <<"#","#">>, <<">",">","=">>, <<"<","<","=">>, <<"-",">","*">> >>

PUNCTS ==
    << <<">",">","=">>, <<"<","<","=">>, <<"-",">","*">>, <<":",":">>, <<"-",">">>,
       <<"+","+">>, <<"-","-">>, <<"<","<">>, <<">",">">>, <<"&","&">>, <<"|","|">>,
       <<"=","=">>, <<"!","=">>, <<"<","=">>, <<">","=">>, <<"+","=">>, <<"-","=">>,
       <<"*","=">>, <<"/","=">>, <<"%","=">>, <<"&","=">>, <<"|","=">>, <<"^","=">>,
       <<"#","#">> >>

\* match_from(pos, arr): the end of the first entry of arr found at pos, else 0.
RECURSIVE MatchFromAt(_, _, _, _)
MatchFromAt(code, pos, arr, x) ==
    IF x > Len(arr) THEN 0
    ELSE LET p == arr[x]
         IN  IF pos + Len(p) <= Len(code) /\ Substr(code, pos, Len(p)) = p
             THEN pos + Len(p)
             ELSE MatchFromAt(code, pos, arr, x + 1)

match_from(code, pos, arr) == MatchFromAt(code, pos, arr, 1)

\* The body loop of a string or character literal closed by q, entered
\* after the opening quote: the index after the closing quote, or the end.
RECURSIVE ScanQuoted(_, _, _, _)
ScanQuoted(code, i, esc2, q) ==
    IF i < Len(code)
    THEN LET ch == At(code, i)
         IN  IF esc2 THEN ScanQuoted(code, i + 1, FALSE, q)
             ELSE IF ch = "\\" THEN ScanQuoted(code, i + 1, TRUE, q)
             ELSE IF ch = q THEN i + 1
             ELSE ScanQuoted(code, i + 1, FALSE, q)
    ELSE i

\* The end of the string literal starting at i, or 0 when the string
\* branch does not apply or falls back.
StringEnd(code, i) ==
    LET n == Len(code)
        c == At(code, i)
        i1 == IF c = "u" /\ i + 1 < n /\ At(code, i + 1) = "8" THEN i + 2 ELSE i
        i2 == IF At(code, i1) \in {"u", "U", "L"} /\ i1 + 1 < n /\ At(code, i1 + 1) = "\""
              THEN i1 + 1 ELSE i1
    IN  IF \/ c = "\""
           \/ (c = "u" /\ i + 1 < n /\ (At(code, i + 1) = "8" \/ At(code, i + 1) = "\""))
           \/ (c = "U" /\ i + 1 < n /\ At(code, i + 1) = "\"")
           \/ (c = "L" /\ i + 1 < n /\ At(code, i + 1) = "\"")
        THEN IF At(code, i2) = "\"" THEN ScanQuoted(code, i2 + 1, FALSE, "\"") ELSE 0
        ELSE 0

\* The end of the character literal starting at i, or 0.
CharEnd(code, i) ==
    LET n == Len(code)
        c == At(code, i)
        pre == c \in {"u", "U", "L"} /\ i + 1 < n /\ At(code, i + 1) = "'"
        i1 == IF pre THEN i + 1 ELSE i
    IN  IF c = "'" \/ pre
        THEN IF At(code, i1) = "'" THEN ScanQuoted(code, i1 + 1, FALSE, "'") ELSE 0
        ELSE 0

RECURSIVE IdentEnd(_, _)
IdentEnd(code, i) ==
    IF i < Len(code) /\ is_ident_char(At(code, i)) THEN IdentEnd(code, i + 1) ELSE i

RECURSIVE NumberEnd(_, _)
NumberEnd(code, i) ==
    IF i < Len(code) /\ (isalnum(At(code, i)) \/ At(code, i) \in {".", "_", "'"})
    THEN NumberEnd(code, i + 1)
    ELSE i

\* The end of the token that starts at the non-whitespace index i.
TokenEnd(code, i) ==
    LET pr == parse_prefixed_raw(code, i)
        rs == parse_raw_string(code, i)
        se == StringEnd(code, i)
        ce == CharEnd(code, i)
        m  == match_from(code, i, PUNCTS)
    IN  IF pr.ok THEN pr.j
        ELSE IF rs.ok /\ rs.j > i THEN rs.j
        ELSE IF se # 0 THEN se
        ELSE IF ce # 0 THEN ce
        ELSE IF is_ident_start(At(code, i)) THEN IdentEnd(code, i + 1)
        ELSE IF isdigit(At(code, i)) THEN NumberEnd(code, i + 1)
        ELSE IF m # 0 THEN m
        ELSE i + 1

\* A variant of the iteration that pushes a whitespace character as a token.
TokStepKeepSpace(code, s) ==
    IF isspace(At(code, s.i))
    THEN [i |-> s.i + 1, toks |-> Append(s.toks, Slice(code, s.i, s.i + 1))]
    ELSE LET e == TokenEnd(code, s.i)
         IN  [i |-> e, toks |-> Append(s.toks, Slice(code, s.i, e))]

\* One iteration of the while loop: skip a whitespace or push a token.
TokStep(code, s) ==
    IF isspace(At(code, s.i)) THEN [s EXCEPT !.i = s.i + 1]
    ELSE LET e == TokenEnd(code, s.i)
         IN  [i |-> e, toks |-> Append(s.toks, Slice(code, s.i, e))]

\* The while loop: n further iterations from s, or fewer when i reaches the
\* end first.
RECURSIVE TokLoop(_, _, _)
TokLoop(code, s, n) ==
    IF n <= 0 \/ s.i >= Len(code) THEN s
    ELSE IF n = 1 THEN TokStep(code, s)
    ELSE TokLoop(code, TokLoop(code, s, n \div 2), n - (n \div 2))

tokenize_minimal_cpp(code) == TokLoop(code, [i |-> 0, toks |-> << >>], Len(code)).toks

(***************************************************************************)
(* needs_separator, join_tokens_min_sep                                    *)
(***************************************************************************)
multi == { PUNCTS[x] : x \in 1..Len(PUNCTS) } \cup { <<".", ".", ".">> }

\* A variant of needs_separator that lacks the literal-suffix class.
needs_separator_no_suffix(a, b) ==
    IF a = << >> \/ b = << >> THEN FALSE
    ELSE LET ca == a[Len(a)]
             cb == b[1]
             is_alnum_(c) == isalnum(c) \/ c = "_"
         IN  \/ is_alnum_(ca) /\ is_alnum_(cb)
             \/ (ca = "/" /\ cb = "/") \/ (ca = "/" /\ cb = "*") \/ (ca = "*" /\ cb = "/")
             \/ Len(a) >= 2 /\ <<a[Len(a) - 1], ca, cb>> \in multi
             \/ <<ca, cb>> \in multi
             \/ Len(b) >= 2 /\ <<ca, cb, b[2]>> \in multi
             \/ ca = "." /\ Len(b) >= 2 /\ b[1] = "." /\ b[2] = "."
             \/ Len(a) >= 2 /\ a[Len(a) - 1] = "." /\ a[Len(a)] = "." /\ cb = "."
             \/ (ca = "." /\ isdigit(cb)) \/ (isdigit(ca) /\ cb = ".")

needs_separator(a, b) ==
    IF a = << >> \/ b = << >> THEN FALSE
    ELSE LET ca == a[Len(a)]
             cb == b[1]
             is_alnum_(c) == isalnum(c) \/ c = "_"
         IN  \/ is_alnum_(ca) /\ is_alnum_(cb)
             \/ (ca = "/" /\ cb = "/") \/ (ca = "/" /\ cb = "*") \/ (ca = "*" /\ cb = "/")
             \/ Len(a) >= 2 /\ <<a[Len(a) - 1], ca, cb>> \in multi
             \/ <<ca, cb>> \in multi
             \/ Len(b) >= 2 /\ <<ca, cb, b[2]>> \in multi
             \/ ca = "." /\ Len(b) >= 2 /\ b[1] = "." /\ b[2] = "."
             \/ Len(a) >= 2 /\ a[Len(a) - 1] = "." /\ a[Len(a)] = "." /\ cb = "."
             \/ (ca \in {"\"", "'"} \/ isdigit(ca)) /\ (isalpha(cb) \/ cb = "_")
             \/ (ca = "." /\ isdigit(cb)) \/ (isdigit(ca) /\ cb = ".")

minimal_separator == <<" ">>

RECURSIVE JoinFrom(_, _, _, _)
JoinFrom(toks, i, prev, out) ==
    IF i > Len(toks) THEN out
    ELSE LET cur == toks[i]
             sep == IF prev # << >> /\ needs_separator(prev, cur)
                    THEN minimal_separator ELSE << >>
         IN  JoinFrom(toks, i + 1, cur, out \o sep \o cur)

join_tokens_min_sep(toks) == JoinFrom(toks, 1, << >>, << >>)

(***************************************************************************)
(* convert_layout (dynamic programming): constants and per-row helpers.    *)
(***************************************************************************)
min_width == 80

shoot == 10

MN_TOKENS == 4

SCORE_RELAXATION_FACTOR == 10

MX_COMMENT_LENGTH == 20

NEG_INF == -1000000000

W_BOUND(w) == w + shoot

SCORE_RELAXATION(w) == w \div SCORE_RELAXATION_FACTOR

Min2(x, y) == IF x < y THEN x ELSE y

Max2(x, y) == IF x > y THEN x ELSE y

\* int maxl: the length of the longest token.
maxl(toks) == IF toks = << >> THEN 0
              ELSE CHOOSE m \in { Len(toks[x]) : x \in 1..Len(toks) } :
                      \A x \in 1..Len(toks) : Len(toks[x]) <= m

\* assert(std::max(min_width, maxl) < W_BOUND)
Precondition(toks, w) == Max2(min_width, maxl(toks)) < W_BOUND(w)

\* char01[c]: the density map's 0/1 value of a character.  A density map is
\* given by the set of characters it maps below 0.5.
density_of(zr, ch) == IF ch \in zr THEN 0 ELSE 1

\* The default map: the space maps to 0.0, everything else to 1.0.
default_ascii_density_01 == {" "}

\* want: the row's target densities, padded to W_BOUND with zeros.
WantRow(dens, rw, w, h) ==
    [c \in 1..W_BOUND(w) |-> IF rw < h /\ c <= w THEN dens[rw + 1][c] ELSE 0]

desired_at(want, col) == IF col >= 0 /\ col < Len(want) THEN want[col + 1] ELSE 0

score_char(want, zr, col, ch) ==
    IF desired_at(want, col) = density_of(zr, ch) THEN 1 ELSE 0

\* The sum over the token's characters of score_char, each being 0 or 1.
token_score(want, zr, start_col, tok) ==
    Cardinality({ t \in 0..(Len(tok) - 1) : score_char(want, zr, start_col + t, tok[t + 1]) = 1 })

\* A variant of comment_score that scores the four delimiters only.
comment_score_delimiters(want, zr, start_col, len) ==
    score_char(want, zr, start_col + 0, "/")
    + score_char(want, zr, start_col + 1, "*")
    + score_char(want, zr, start_col + len - 2, "*")
    + score_char(want, zr, start_col + len - 1, "/")

comment_score(want, zr, start_col, len) ==
    (IF len >= 4 THEN len - 4 ELSE 0)
    + score_char(want, zr, start_col + 0, "/")
    + score_char(want, zr, start_col + 1, "*")
    + score_char(want, zr, start_col + len - 2, "*")
    + score_char(want, zr, start_col + len - 1, "/")

\* comment_score for every start column and every length of the row.
CommentScores(want, zr) ==
    [i \in 1..Len(want) |->
        [L \in 4..MX_COMMENT_LENGTH |-> comment_score(want, zr, i - 1, L)]]

\* A variant of need_sep that is never set.
NeedSepUnset(toks, tkn, j) == FALSE

\* need_sep[j], j in 0..maxJThisRow.
NeedSep(toks, tkn, j) ==
    IF tkn + j + 1 < Len(toks)
    THEN needs_separator(toks[tkn + j + 1], toks[tkn + j + 2])
    ELSE FALSE

(***************************************************************************)
(* The random engine.  One run draws from one stream of raw values; the    *)
(* model takes the stream to be periodic and keeps the position in it.     *)
(* coin(rng) and dist(rng) map the next raw value into their ranges.       *)
(***************************************************************************)
RawDraw(strm, p0) == strm[(p0 % Len(strm)) + 1]

coin(strm, p0) == RawDraw(strm, p0) % 2

LetterOf == <<"a","b","c","d","e","f","g","h","i","j","k","l","m",
              "n","o","p","q","r","s","t","u","v","w","x","y","z">>

\* rand_character(): char('a' + dist(rng)).
rand_character(strm, p0) == LetterOf[(RawDraw(strm, p0) % 26) + 1]

NextPos(strm, p0) == (p0 + 1) % Len(strm)

(***************************************************************************)
(* The per-row DP.  cx is the row's context (RowContext): W, WB = W_BOUND, *)
(* want, zero (the density map), toks, taken, tl = tokens_left_total and   *)
(* stream.  acc                                                            *)
(* holds dp and back_point, indexed [i + 1][j + 1][k + 1], and the         *)
(* position pos of the random engine.  The entries with j above            *)
(* tokens_left_total are never read or written and are left out.           *)
(* comment_score(i, L) depends on neither j nor k; cx.cs tabulates it once *)
(* per row, cx.cs[i + 1][L].                                               *)
(***************************************************************************)
Sentinel == <<-1, -1, -1>>

DpAt(acc, i, j, k) == acc.dp[i + 1][j + 1][k + 1]

\* A variant of Relax in which the coin alone lets a candidate replace the
\* score.
RelaxCoinOverwrite(cx, acc, ti, tj, tk, cand, from) ==
    LET ref == DpAt(acc, ti, tj, tk)
    IN  IF cand > ref
        THEN [acc EXCEPT !.dp[ti + 1][tj + 1][tk + 1] = cand,
                         !.bp[ti + 1][tj + 1][tk + 1] = from]
        ELSE IF ref # NEG_INF
        THEN [acc EXCEPT !.dp[ti + 1][tj + 1][tk + 1] =
                             IF coin(cx.stream, acc.pos) = 1 THEN cand ELSE @,
                         !.bp[ti + 1][tj + 1][tk + 1] =
                             IF coin(cx.stream, acc.pos) = 1 THEN from ELSE @,
                         !.pos = NextPos(cx.stream, acc.pos)]
        ELSE acc

\* A variant of Relax that flips the coin for every candidate that is not
\* better, equal or not.
RelaxAnyCoin(cx, acc, ti, tj, tk, cand, from) ==
    LET ref == DpAt(acc, ti, tj, tk)
    IN  IF cand > ref
        THEN [acc EXCEPT !.dp[ti + 1][tj + 1][tk + 1] = cand,
                         !.bp[ti + 1][tj + 1][tk + 1] = from]
        ELSE IF ref # NEG_INF
        THEN [acc EXCEPT !.bp[ti + 1][tj + 1][tk + 1] =
                             IF coin(cx.stream, acc.pos) = 1 THEN from ELSE @,
                         !.pos = NextPos(cx.stream, acc.pos)]
        ELSE acc

\* The update of a target state (ti, tj, tk) by a candidate score coming
\* from `from`: a better score replaces it, an equal one flips the coin.
Relax(cx, acc, ti, tj, tk, cand, from) ==
    LET ref == DpAt(acc, ti, tj, tk)
    IN  IF cand > ref
        THEN [acc EXCEPT !.dp[ti + 1][tj + 1][tk + 1] = cand,
                         !.bp[ti + 1][tj + 1][tk + 1] = from]
        ELSE IF cand = ref /\ ref # NEG_INF
        THEN [acc EXCEPT !.bp[ti + 1][tj + 1][tk + 1] =
                             IF coin(cx.stream, acc.pos) = 1 THEN from ELSE @,
                         !.pos = NextPos(cx.stream, acc.pos)]
        ELSE acc

\* TRUE of every acc.  As the first test of a loop it makes TLC evaluate
\* the accumulated value before the next iteration is entered.
Evaluated(acc) == acc.pos >= 0

\* A variant of the space transition whose bound is one column short.
SpaceTransitionShort(cx, acc, i, j, k) ==
    IF i + 1 < cx.WB - 1
    THEN Relax(cx, acc, i + 1, j, 0,
               DpAt(acc, i, j, k) + score_char(cx.want, cx.zero, i, " "), <<i, j, k>>)
    ELSE acc

\* type 1 transition: place a space.
SpaceTransition(cx, acc, i, j, k) ==
    IF i + 1 < cx.WB
    THEN Relax(cx, acc, i + 1, j, 0,
               DpAt(acc, i, j, k) + score_char(cx.want, cx.zero, i, " "), <<i, j, k>>)
    ELSE acc

\* type 2 transition with one length L.
CommentTransition(cx, acc, i, j, k, L) ==
    Relax(cx, acc, i + L, j, 1,
          DpAt(acc, i, j, k) + cx.cs[i + 1][L], <<i, j, k>>)

RECURSIVE CommentLoop(_, _, _, _, _, _, _)
CommentLoop(cx, acc, i, j, k, L, Lmax) ==
    IF ~Evaluated(acc) \/ L > Lmax THEN acc
    ELSE CommentLoop(cx, CommentTransition(cx, acc, i, j, k, L), i, j, k, L + 1, Lmax)

\* type 2 transition: a comment of every length in [4, Lmax].
CommentTransitions(cx, acc, i, j, k) ==
    CommentLoop(cx, acc, i, j, k, 4, Min2(MX_COMMENT_LENGTH, cx.WB - i - 1))

\* type 3/4 transition: place the next token, unless the last blob is a
\* token that requires a separator.
TokenTransition(cx, acc, i, j, k) ==
    IF j < cx.tl /\ k # 2
    THEN LET tok == cx.toks[cx.taken + j + 1]
             L == Len(tok)
             maxJThisRow == Min2(cx.WB - 1, cx.tl)
             req_sep == IF j <= maxJThisRow THEN NeedSep(cx.toks, cx.taken, j) ELSE FALSE
             nk == IF req_sep THEN 2 ELSE 3
         IN  IF i + L < cx.WB
             THEN Relax(cx, acc, i + L, j + 1, nk,
                        DpAt(acc, i, j, k) + token_score(cx.want, cx.zero, i, tok), <<i, j, k>>)
             ELSE acc
    ELSE acc

\* The body of the k loop for one state (i, j, k).
FromState(cx, acc, i, j, k) ==
    IF DpAt(acc, i, j, k) = NEG_INF THEN acc
    ELSE TokenTransition(cx, CommentTransitions(cx, SpaceTransition(cx, acc, i, j, k), i, j, k),
                         i, j, k)

LoopK(cx, acc, i, j) ==
    FromState(cx, FromState(cx, FromState(cx, FromState(cx, acc, i, j, 0), i, j, 1), i, j, 2),
              i, j, 3)

RECURSIVE LoopJ(_, _, _, _, _)
LoopJ(cx, acc, i, j, jmax) ==
    IF ~Evaluated(acc) \/ j > jmax THEN acc ELSE LoopJ(cx, LoopK(cx, acc, i, j), i, j + 1, jmax)

\* The i loop over lo..hi, in increasing order (split in halves to keep
\* evaluation shallow).
RECURSIVE LoopI(_, _, _, _)
LoopI(cx, acc, lo, hi) ==
    IF ~Evaluated(acc) \/ lo > hi THEN acc
    ELSE IF lo = hi THEN LoopJ(cx, acc, lo, 0, Min2(lo, cx.tl))
    ELSE LoopI(cx, LoopI(cx, acc, lo, (lo + hi) \div 2), ((lo + hi) \div 2) + 1, hi)

\* init DP and back pointers; dp[0][0][0] = 0.
DpInit(cx, p0) ==
    [dp  |-> [i \in 1..cx.WB |-> [j \in 1..(cx.tl + 1) |-> [k \in 1..4 |->
                 IF i = 1 /\ j = 1 /\ k = 1 THEN 0 ELSE NEG_INF]]],
     bp  |-> [i \in 1..cx.WB |-> [j \in 1..(cx.tl + 1) |-> [k \in 1..4 |-> Sentinel]]],
     pos |-> p0]

SolveRow(cx, p0) == LoopI(cx, DpInit(cx, p0), 0, cx.WB - 1)

(***************************************************************************)
(* Row selection: the relaxed selection by token count.                    *)
(***************************************************************************)
iStart(w) == Max2(0, w - shoot)

jHi(cx) == Min2(cx.tl, cx.WB - 1)

\* The states (i, j, k) with i in iStart..WB-1, j in jlo..jhi, in the order
\* of the loops i, j, k.
StatesIJK(cx, jlo, jhi) ==
    LET ni == cx.WB - iStart(cx.W)
        nj == jhi - jlo + 1
    IN  IF nj <= 0 THEN << >>
        ELSE [x \in 1..(ni * nj * 4) |->
                 << iStart(cx.W) + ((x - 1) \div (nj * 4)),
                    jlo + (((x - 1) \div 4) % nj),
                    (x - 1) % 4 >>]

\* The states (i, j, k) with i in iStart..WB-1 and the given j, in the order
\* of the loops i, k.
StatesIK(cx, j) == StatesIJK(cx, j, j)

\* One step of a scan for the best value: a state replaces the best so far
\* when its value reaches the threshold and is strictly larger.
ScanStep(acc, best, st, threshold) ==
    LET val == DpAt(acc, st[1], st[2], st[3])
    IN  IF val >= threshold /\ val > best.val THEN [val |-> val, st |-> st] ELSE best

RECURSIVE ScanRange(_, _, _, _, _, _)
ScanRange(acc, best, sts, lo, hi, threshold) ==
    IF best.val < NEG_INF \/ lo > hi THEN best
    ELSE IF lo = hi THEN ScanStep(acc, best, sts[lo], threshold)
    ELSE ScanRange(acc, ScanRange(acc, best, sts, lo, (lo + hi) \div 2, threshold),
                   sts, ((lo + hi) \div 2) + 1, hi, threshold)

\* The scan over sts in order, from bestVal = NEG_INF and state {0,0,0}.
Scan(acc, sts, threshold) ==
    ScanRange(acc, [val |-> NEG_INF, st |-> <<0, 0, 0>>], sts, 1, Len(sts), threshold)

\* 1) any valid state with j >= minTok.
AnyState(cx, acc, minTok) ==
    \E i \in iStart(cx.W)..(cx.WB - 1) : \E j \in Max2(0, minTok)..jHi(cx) : \E k \in 0..3 :
        DpAt(acc, i, j, k) # NEG_INF

\* A variant of ChooseAt that stops after 2): it accepts the best state.
ChooseAtBest(cx, acc, minTok) ==
    Scan(acc, StatesIJK(cx, Max2(0, minTok), jHi(cx)), NEG_INF).st

\* 2) and 3) for an accepted minTok: the best state, then the largest j that
\* has a state within the relaxation of the best, and the best state at it.
ChooseAt(cx, acc, minTok) ==
    LET best == Scan(acc, StatesIJK(cx, Max2(0, minTok), jHi(cx)), NEG_INF)
        threshold == best.val - SCORE_RELAXATION(cx.W)
        AtJ(j) == Scan(acc, StatesIK(cx, j), threshold)
        Js == { j \in Max2(0, minTok)..jHi(cx) : AtJ(j).val # NEG_INF }
    IN  IF Js = {} THEN best.st
        ELSE AtJ(CHOOSE j \in Js : \A j2 \in Js : j2 <= j).st

\* A variant of the selection without the floor on the token count.
SelectStateNoFloor(cx, acc) == ChooseAt(cx, acc, 0)

\* optimal_state of the row.
SelectState(cx, acc) ==
    LET Ms == { m \in 0..Min2(MN_TOKENS, cx.tl) : AnyState(cx, acc, m) }
    IN  IF Ms = {}
        THEN Scan(acc, StatesIJK(cx, 0, jHi(cx)), NEG_INF).st
        ELSE ChooseAt(cx, acc, CHOOSE m \in Ms : \A m2 \in Ms : m2 <= m)

(***************************************************************************)
(* Reconstruction of the row from optimal_state and back_point.  A blob is *)
(* one segment seg with the type ck of the state it ends in.               *)
(***************************************************************************)
BlobKind(ck) == IF ck = 0 THEN "space" ELSE IF ck = 1 THEN "comment" ELSE "token"

wantbit(cx, col) ==
    IF cx.row < cx.H /\ col < cx.W THEN cx.dens01[cx.row + 1][col + 1] ELSE 0

\* The interior columns t in 2..len-3 of a comment placed at pi where a
\* letter is drawn.
LetterCols(cx, pi, len) == { t \in 2..(len - 3) : wantbit(cx, pi + t) # 0 }

\* A variant of the comment segment whose closing delimiter is reversed.
CommentSegReversed(cx, pi, len, p0) ==
    [x \in 1..len |->
        LET t == x - 1
        IN  IF t = 0 THEN "/"
            ELSE IF t = 1 THEN "*"
            ELSE IF t = len - 2 THEN "/"
            ELSE IF t = len - 1 THEN "*"
            ELSE IF wantbit(cx, pi + t) = 0 THEN " "
            ELSE rand_character(cx.stream,
                                p0 + Cardinality({ u \in LetterCols(cx, pi, len) : u < t }))]

\* The comment's characters t = 0..len-1; the letters are drawn in
\* increasing t, from position p0 of the random engine.
CommentSeg(cx, pi, len, p0) ==
    [x \in 1..len |->
        LET t == x - 1
        IN  IF t = 0 THEN "/"
            ELSE IF t = 1 THEN "*"
            ELSE IF t = len - 2 THEN "*"
            ELSE IF t = len - 1 THEN "/"
            ELSE IF wantbit(cx, pi + t) = 0 THEN " "
            ELSE rand_character(cx.stream,
                                p0 + Cardinality({ u \in LetterCols(cx, pi, len) : u < t }))]

\* A variant of the token segment that reads the token at the state's own j.
TokenSegAtEnd(cx, pj) ==
    IF pj >= 0 /\ pj < cx.WB /\ cx.taken + pj + 1 < Len(cx.toks)
    THEN cx.toks[cx.taken + pj + 2]
    ELSE << >>

\* The token segment of a step from (pi, pj, pk).
TokenSeg(cx, pj) ==
    IF pj >= 0 /\ pj < cx.WB /\ cx.taken + pj < Len(cx.toks)
    THEN cx.toks[cx.taken + pj + 1]
    ELSE << >>

\* One iteration of the reconstruction loop.
ReconStep(cx, acc, r) ==
    IF ~(r.ci > 0 \/ r.cj > 0) THEN [r EXCEPT !.stop = TRUE]
    ELSE LET prev == acc.bp[r.ci + 1][r.cj + 1][r.ck + 1]
             len0 == r.ci - prev[1]
             len  == IF len0 < 4 THEN 4 ELSE len0
         IN  IF prev[1] < 0 THEN [r EXCEPT !.stop = TRUE]
             ELSE [ci |-> prev[1], cj |-> prev[2], ck |-> prev[3],
                   blobs |->
                       << [kind |-> BlobKind(r.ck),
                           text |-> IF r.ck = 0 THEN <<" ">>
                                    ELSE IF r.ck = 1 THEN CommentSeg(cx, prev[1], len, r.pos)
                                    ELSE TokenSeg(cx, prev[2])] >> \o r.blobs,
                   pos |-> IF r.ck = 1
                           THEN (r.pos + Cardinality(LetterCols(cx, prev[1], len)))
                                    % Len(cx.stream)
                           ELSE r.pos,
                   stop |-> FALSE]

\* The reconstruction loop: n further iterations, or fewer when it stops.
RECURSIVE ReconLoop(_, _, _, _)
ReconLoop(cx, acc, r, n) ==
    IF r.stop \/ n <= 0 THEN r
    ELSE IF n = 1 THEN ReconStep(cx, acc, r)
    ELSE ReconLoop(cx, acc, ReconLoop(cx, acc, r, n \div 2), n - (n \div 2))

\* Every iteration but the last moves to a state with a smaller i or j, so
\* 2 * WB iterations end the loop.
Reconstruct(cx, acc, chosen) ==
    ReconLoop(cx, acc,
              [ci |-> chosen[1], cj |-> chosen[2], ck |-> chosen[3],
               blobs |-> << >>, pos |-> acc.pos, stop |-> FALSE],
              2 * cx.WB)

\* The characters of a sequence of blobs, in order.
RECURSIVE BlobText(_, _, _)
BlobText(bs, lo, hi) ==
    IF lo > hi THEN << >>
    ELSE IF lo = hi THEN bs[lo].text
    ELSE BlobText(bs, lo, (lo + hi) \div 2) \o BlobText(bs, ((lo + hi) \div 2) + 1, hi)

RowText(bs) == BlobText(bs, 1, Len(bs))
\* The context of image row rw.
\* The context of image row `rw`.
RowContext(toks, w, h, dens, zr, strm, tkn, rw) ==
    LET want == WantRow(dens, rw, w, h)
    IN  [W |-> w, WB |-> W_BOUND(w), H |-> h, row |-> rw, dens01 |-> dens,
         want |-> want, zero |-> zr, cs |-> CommentScores(want, zr),
         toks |-> toks, taken |-> tkn, tl |-> Max2(0, Len(toks) - tkn),
         stream |-> strm]

(***************************************************************************)
(* The overflow tail: one line packed greedily up to W_eff.                *)
(***************************************************************************)
\* A variant of the inner loop's iteration that never places a token beyond
\* W_eff.
OverflowStepStrict(toks, W_eff, o) ==
    LET tok == toks[o.taken + 1]
        sep == IF o.prev # << >> /\ needs_separator(o.prev, tok) THEN 1 ELSE 0
        L   == sep + Len(tok)
    IN  IF o.col + L > W_eff
        THEN [o EXCEPT !.stop = TRUE]
        ELSE [taken |-> o.taken + 1,
              col   |-> o.col + sep + Len(tok),
              prev  |-> tok,
              blobs |-> o.blobs
                        \o (IF sep = 1 THEN << [kind |-> "space", text |-> <<" ">>] >>
                            ELSE << >>)
                        \o << [kind |-> "token", text |-> tok] >>,
              stop  |-> FALSE]

\* A variant of the inner loop's iteration that places the token that does
\* not fit before it flushes the line.
OverflowStepOneMore(toks, W_eff, o) ==
    LET tok == toks[o.taken + 1]
        sep == IF o.prev # << >> /\ needs_separator(o.prev, tok) THEN 1 ELSE 0
        L   == sep + Len(tok)
        placed == [taken |-> o.taken + 1,
                   col   |-> o.col + sep + Len(tok),
                   prev  |-> tok,
                   blobs |-> o.blobs
                             \o (IF sep = 1 THEN << [kind |-> "space", text |-> <<" ">>] >>
                                 ELSE << >>)
                             \o << [kind |-> "token", text |-> tok] >>,
                   stop  |-> FALSE]
    IN  IF o.col + L > W_eff THEN [placed EXCEPT !.stop = TRUE] ELSE placed

\* One iteration of the inner while loop; o holds taken, col, prev, the
\* line's blobs, and stop once the line is flushed.
OverflowStep(toks, W_eff, o) ==
    LET tok == toks[o.taken + 1]
        sep == IF o.prev # << >> /\ needs_separator(o.prev, tok) THEN 1 ELSE 0
        L   == sep + Len(tok)
        placed == [taken |-> o.taken + 1,
                   col   |-> o.col + sep + Len(tok),
                   prev  |-> tok,
                   blobs |-> o.blobs
                             \o (IF sep = 1 THEN << [kind |-> "space", text |-> <<" ">>] >>
                                 ELSE << >>)
                             \o << [kind |-> "token", text |-> tok] >>,
                   stop  |-> FALSE]
    IN  IF o.col + L > W_eff
        THEN IF o.col = 0 THEN [placed EXCEPT !.stop = TRUE] ELSE [o EXCEPT !.stop = TRUE]
        ELSE placed

RECURSIVE OverflowLoop(_, _, _, _)
OverflowLoop(toks, W_eff, o, n) ==
    IF o.stop \/ o.taken >= Len(toks) \/ n <= 0 THEN o
    ELSE IF n = 1 THEN OverflowStep(toks, W_eff, o)
    ELSE OverflowLoop(toks, W_eff, OverflowLoop(toks, W_eff, o, n \div 2), n - (n \div 2))

\* One overflow iteration with W_eff = w + extra.
OverflowRowResult(toks, w, extra, tkn) ==
    OverflowLoop(toks, w + extra,
                 [taken |-> tkn, col |-> 0, prev |-> << >>, blobs |-> << >>, stop |-> FALSE],
                 Len(toks))

(***************************************************************************)
(* The run of convert_layout on the pipeline's tokens.                     *)
(***************************************************************************)
MaxH == 2

Rep(c, n) == [x \in 1..n |-> c]

\* Source texts: no token, a trailing '/', a declaration, a statement of
\* six tokens, a string literal that holds a comment opener, and three
\* long identifiers that do not fit the image band.
LayoutSources ==
    { << >>,
      <<"a", "/">>,
      <<"i", "n", "t", " ", "a", "=", "1", ";">>,
      <<"x", "=", "y", "*", "z", ";">>,
      <<"\"", "/", "*", "\"">>,
      Rep("q", 75) \o <<" ">> \o Rep("r", 40) \o <<"/">> \o Rep("s", 34) }

\* The art widths: the smallest width the precondition allows.
Widths == { min_width - shoot + 1 }

\* Target rows: all empty, all ink, ink in the left half.
PatternRow(p, w) ==
    [c \in 1..w |-> IF p = 1 \/ (p = 2 /\ 2 * c <= w) THEN 1 ELSE 0]

\* The art of height h whose row r has pattern (p + r) % 3.
ArtOf(p, w, h) == [r \in 1..h |-> PatternRow((p + r - 1) % 3, w)]

\* The density map, the raw values of the random engine and the art's first
\* pattern of a run.  main always passes default_ascii_density_01; the empty
\* zero set is a map that holds every character dense.
Settings ==
    { [p |-> 1, zero |-> default_ascii_density_01, stream |-> <<1, 4, 2>>],
      [p |-> 2, zero |-> default_ascii_density_01, stream |-> <<0>>],
      [p |-> 0, zero |-> {},                       stream |-> <<1, 4, 2>>] }

NoText == << >>

\* std::optional: None, or Some(x).
None == << >>

Some(x) == <<x>>

\* A path of the file system: a file with its bytes, or nothing to open.
File(data) == [exists |-> TRUE, data |-> data]

Missing == [exists |-> FALSE, data |-> << >>]

\* The process has not exited.
Running == -1

\* The exit status of a process ended by abort().
Aborted == 134

NoArgv == [paths |-> TRUE, width |-> None, height |-> None]

NoArt == [W |-> 0, H |-> 0, density |-> << >>]

\* No row has been solved.
DpIdle == dp = << >> /\ back_point = << >> /\ optimal_state = <<0, 0, 0>>

GreedyIdle == cur_col = 0 /\ cur_line = NoText /\ prev_tok = NoText

StripIdle == pieces = << >> /\ code_nc = NoText /\ code_nc2 = NoText

ArtIdle == art_text = NoText /\ width = None /\ height = None /\ art = NoArt

CliIdle ==
    /\ argv = NoArgv /\ code_file = Missing /\ art_file = Missing /\ out_ok = TRUE
    /\ ndebug = FALSE /\ exit_code = Running /\ written = None

PureIdle ==
    /\ sa = NoText /\ sb = NoText /\ sres = FALSE
    /\ joined = NoText /\ tokens2 = << >>
    /\ StripIdle /\ ArtIdle /\ CliIdle /\ GreedyIdle

Init ==
    /\ pc = "loop"
    /\ code_text \in LayoutSources
    /\ tokens = tokenize_minimal_cpp(strip_comments_preserve_literals(code_text))
    /\ W \in Widths
    /\ H \in 0..MaxH
    /\ \E st \in Settings :
          /\ dens01 = ArtOf(st.p, W, H)
          /\ zero = st.zero
          /\ stream = st.stream
    /\ Precondition(tokens, W)
    /\ rngpos = 0 /\ taken = 0 /\ row = 0
    /\ waifu = << >> /\ blobs = << >> /\ w_eff = 0
    /\ DpIdle
    /\ PureIdle

\* A variant of the loop condition that needs both conjuncts.
LoopConditionBoth(tkn, n, rw, h) == tkn < n /\ rw < h

\* while (taken < n or row < H)
LoopCondition(tkn, n, rw, h) == tkn < n \/ rw < h

LayoutInputsUnchanged ==
    UNCHANGED <<code_text, tokens, W, H, dens01, zero, stream, sa, sb, sres, joined, tokens2,
                stripvars, artvars, clivars, greedyvars>>

\* while (taken < n or row < H), row < H: solve the row's DP and emit it.
ImageRow ==
    /\ pc = "loop"
    /\ LoopCondition(taken, Len(tokens), row, H)
    /\ row < H
    /\ \E cx \in { RowContext(tokens, W, H, dens01, zero, stream, taken, row) } :
       \E acc \in { SolveRow(cx, rngpos) } :
       \E chosen \in { SelectState(cx, acc) } :
       \E rec \in { Reconstruct(cx, acc, chosen) } :
           /\ dp' = acc.dp
           /\ back_point' = acc.bp
           /\ optimal_state' = chosen
           /\ taken' = taken + chosen[2]
           /\ waifu' = Append(waifu, RowText(rec.blobs))
           /\ blobs' = Append(blobs, rec.blobs)
           /\ rngpos' = rec.pos
    /\ row' = row + 1
    /\ pc' = "loop"
    /\ UNCHANGED w_eff
    /\ LayoutInputsUnchanged

\* while (taken < n or row < H), row >= H: pack one overflow line.
OverflowRow ==
    /\ pc = "loop"
    /\ LoopCondition(taken, Len(tokens), row, H)
    /\ row >= H
    /\ \E extra \in 0..(shoot - 1) :
       \E o \in { OverflowRowResult(tokens, W, extra, taken) } :
           /\ w_eff' = W + extra
           /\ taken' = o.taken
           /\ waifu' = Append(waifu, RowText(o.blobs))
           /\ blobs' = Append(blobs, o.blobs)
    /\ row' = row + 1
    /\ pc' = "loop"
    /\ UNCHANGED <<rngpos, dpvars>>
    /\ LayoutInputsUnchanged

\* The loop condition fails: return waifu.
Return ==
    /\ pc = "loop"
    /\ ~LoopCondition(taken, Len(tokens), row, H)
    /\ pc' = "done"
    /\ UNCHANGED <<rngpos, taken, row, waifu, blobs, w_eff, dpvars>>
    /\ LayoutInputsUnchanged

Next == ImageRow \/ OverflowRow \/ Return

Spec == Init /\ [][Next]_vars

\* A step of the loop as the program counter and row show it: an iteration
\* adds one to row, the exit changes pc.  Every step of Next is such a step,
\* and one is possible in every state with pc = "loop".
LoopStep ==
    /\ pc = "loop"
    /\ pc' \in {"loop", "done"}
    /\ row' \in {row, row + 1}

\* convert_layout runs on its own thread of control: while it is in the
\* loop, it keeps taking steps.
FairSpec == Spec /\ WF_<<pc, row>>(LoopStep)

(***************************************************************************)
(* needs_separator on its own: the two arguments are drawn from Atoms.     *)
(***************************************************************************)
Atoms ==
    { << >>,
      <<"a">>, <<"_">>, <<"s">>, <<"m", "s">>, <<"x", "1">>,
      <<"7">>, <<"4", "2">>, <<"1", ".">>, <<".", "5">>,
      <<"\"", "h", "i", "\"">>, <<"'", "c", "'">>,
      <<"/">>, <<"*">>, <<"+">>, <<"-">>, <<">">>, <<"<">>, <<"=">>, <<"!">>,
      <<"%">>, <<"&">>, <<"|">>, <<"^">>, <<":">>, <<"#">>, <<".">>, <<";">>, <<"(">>,
      <<".", ".">>, <<"-", ">">>, <<">", ">">>, <<"<", "<">>, <<"*", "=">>, <<">", "=">> }

LayoutIdle ==
    /\ W = 0 /\ H = 0 /\ dens01 = << >> /\ zero = {} /\ stream = <<0>>
    /\ rngpos = 0 /\ taken = 0 /\ row = 0 /\ waifu = << >> /\ blobs = << >> /\ w_eff = 0
    /\ DpIdle

InitSep ==
    /\ pc = "sep"
    /\ sa \in Atoms /\ sb \in Atoms
    /\ sres = FALSE
    /\ code_text = NoText /\ tokens = << >> /\ joined = NoText /\ tokens2 = << >>
    /\ LayoutIdle
    /\ StripIdle /\ ArtIdle /\ CliIdle /\ GreedyIdle

\* The call needs_separator(sa, sb).
SepCall ==
    /\ pc = "sep"
    /\ sres' = needs_separator(sa, sb)
    /\ pc' = "sep_done"
    /\ UNCHANGED <<code_text, tokens, W, H, dens01, zero, stream, rngpos, taken, row, waifu,
                   blobs, w_eff, dpvars, sa, sb, joined, tokens2, stripvars, artvars, clivars,
                   greedyvars>>

NextSep == SepCall

SpecSep == InitSep /\ [][NextSep]_vars

(***************************************************************************)
(* tokenize, join, tokenize again: the source is drawn from the texts of   *)
(* at most MaxLen characters of TextAlphabet, which holds no '/', so that  *)
(* every source is free of comments.                                       *)
(***************************************************************************)
MaxLen == 4

TextAlphabet == {"1", "a", "'", " ", "+"}

TextsOfLen(n) == [1..n -> TextAlphabet]

RoundTripSources ==
    UNION { TextsOfLen(n) : n \in 0..MaxLen }
    \cup { <<"i", "n", "t", " ", "x", "=", "1", "+", "2", ";">> }

InitTok ==
    /\ pc = "tokenize"
    /\ code_text \in RoundTripSources
    /\ tokens = << >> /\ joined = NoText /\ tokens2 = << >>
    /\ sa = NoText /\ sb = NoText /\ sres = FALSE
    /\ LayoutIdle
    /\ StripIdle /\ ArtIdle /\ CliIdle /\ GreedyIdle

TokUnchanged ==
    UNCHANGED <<code_text, W, H, dens01, zero, stream, rngpos, taken, row, waifu, blobs,
                w_eff, dpvars, sa, sb, sres, stripvars, artvars, clivars, greedyvars>>

\* T = tokenize_minimal_cpp(x)
Tokenize ==
    /\ pc = "tokenize"
    /\ tokens' = tokenize_minimal_cpp(code_text)
    /\ pc' = "join"
    /\ UNCHANGED <<joined, tokens2>>
    /\ TokUnchanged

\* join_tokens_min_sep(T)
Join ==
    /\ pc = "join"
    /\ joined' = join_tokens_min_sep(tokens)
    /\ pc' = "retokenize"
    /\ UNCHANGED <<tokens, tokens2>>
    /\ TokUnchanged

\* tokenize_minimal_cpp of the joined text
Retokenize ==
    /\ pc = "retokenize"
    /\ tokens2' = tokenize_minimal_cpp(joined)
    /\ pc' = "round_trip_done"
    /\ UNCHANGED <<tokens, joined>>
    /\ TokUnchanged

NextTok == Tokenize \/ Join \/ Retokenize

SpecTok == InitTok /\ [][NextTok]_vars

(***************************************************************************)
(* strip, strip again, tokenize both: the source is put together from      *)
(* pieces, each a literal, a comment or plain text, and each with the text *)
(* that is to be kept of it.                                               *)
(***************************************************************************)
MaxPieces == 2

Piece(kind, text, kept) == [kind |-> kind, text |-> text, kept |-> kept, delim |-> << >>]

Literal(kind, text) == Piece(kind, text, text)

\* Plain text, string literals, character literals and raw-string literals,
\* some of them holding comment openers, closers and escaped quotes.
LiteralPieces ==
    { Literal("plain", <<"a">>), Literal("plain", <<" ">>), Literal("plain", <<";">>),
      Literal("string", <<"\"", "a", "\"">>),
      Literal("string", <<"\"", "/", "/", "\"">>),
      Literal("string", <<"\"", "/", "*", "\"">>),
      Literal("string", <<"\"", "\\", "\"", "*", "/", "\"">>),
      Literal("char", <<"'", "\"", "'">>),
      Literal("char", <<"'", "\\", "'", "'">>),
      Literal("raw", <<"R", "\"", "x", "(", "*", "/", ")", "x", "\"">>),
      Literal("raw", <<"R", "\"", "(", "a", ")", "\"">>),
      Literal("raw", <<"u", "8", "R", "\"", "x", "(", "\"", "/", "/", ")", "x", "\"">>) }

\* Line comments, of which the newline is kept, and block comments.
CommentPieces ==
    { Piece("line", <<"/", "/", "c", "\"", "\n">>, <<"\n">>),
      Piece("block", <<"/", "*", "c", "'", "*", "/">>, << >>),
      Piece("block", <<"/", "*", "/", "/", "*", "/">>, << >>) }

\* R"d( "//c )d" with the delimiter d: the text is kept whole when the
\* opener is taken for a raw string's, and cut at the // when it is not.
RawCandidate(pfx, d) ==
    [kind |-> "rawcand",
     text |-> pfx \o <<"R", "\"">> \o d \o <<"(", "\"", "/", "/", "c", ")">> \o d \o <<"\"">>,
     kept |-> << >>,
     delim |-> d]

DelimLengths == {0, 1, 15, 16, 17, 18}

RawCandidates ==
    { RawCandidate(<< >>, Rep("d", n)) : n \in DelimLengths }
    \cup { RawCandidate(pfx, Rep("d", n)) :
              pfx \in { <<"u", "8">>, <<"u">>, <<"U">>, <<"L">> }, n \in {16, 17} }
    \cup { RawCandidate(<< >>, d) :
              d \in { <<"d", " ", "d">>, <<"d", ")", "d">>, <<"d", "\\", "d">>,
                      <<"d", "\t">>, <<"d", "\n", "d">> } }

\* Texts that are not put together from literals and comments: a comment
\* between R and a string, and comment delimiters that touch.
OtherTexts ==
    { <<"R", "/", "*", "*", "/", "\"", "d", "(", "\"", ")", "d", "\"", "/", "/", "\"">>,
      <<"a", "/", "*", "*", "/", "b">>,
      <<"/", "*", "/", "a", "*", "/", "b">>,
      <<"/", "/", "*", "\n", "a", "*", "/">>,
      <<"\"", "a", "/", "/", "b">>,
      <<"/", "*", "a">> }

OtherPieces == { Piece("other", t, << >>) : t \in OtherTexts }

RECURSIVE PiecesText(_, _)
PiecesText(ps, k) == IF k > Len(ps) THEN << >> ELSE ps[k].text \o PiecesText(ps, k + 1)

RECURSIVE PiecesKept(_, _)
PiecesKept(ps, k) == IF k > Len(ps) THEN << >> ELSE ps[k].kept \o PiecesKept(ps, k + 1)

PieceSeqs ==
    UNION { [1..n -> LiteralPieces \cup CommentPieces] : n \in 0..MaxPieces }
    \cup { <<p>> : p \in RawCandidates \cup OtherPieces }

InitStrip ==
    /\ pc = "strip"
    /\ pieces \in PieceSeqs
    /\ code_text = PiecesText(pieces, 1)
    /\ code_nc = NoText /\ code_nc2 = NoText
    /\ tokens = << >> /\ tokens2 = << >> /\ joined = NoText
    /\ sa = NoText /\ sb = NoText /\ sres = FALSE
    /\ LayoutIdle /\ ArtIdle /\ CliIdle /\ GreedyIdle

StripUnchanged ==
    UNCHANGED <<code_text, W, H, dens01, zero, stream, rngpos, taken, row, waifu, blobs,
                w_eff, dpvars, sa, sb, sres, joined, pieces, artvars, clivars, greedyvars>>

\* strip_comments_preserve_literals(x)
Strip ==
    /\ pc = "strip"
    /\ code_nc' = strip_comments_preserve_literals(code_text)
    /\ pc' = "strip_again"
    /\ UNCHANGED <<code_nc2, tokens, tokens2>>
    /\ StripUnchanged

\* strip_comments_preserve_literals of the stripped text
StripAgain ==
    /\ pc = "strip_again"
    /\ code_nc2' = strip_comments_preserve_literals(code_nc)
    /\ pc' = "tokenize_both"
    /\ UNCHANGED <<code_nc, tokens, tokens2>>
    /\ StripUnchanged

\* tokenize_minimal_cpp of the text stripped once and of the text stripped twice
TokenizeBoth ==
    /\ pc = "tokenize_both"
    /\ tokens' = tokenize_minimal_cpp(code_nc)
    /\ tokens2' = tokenize_minimal_cpp(code_nc2)
    /\ pc' = "strip_done"
    /\ UNCHANGED <<code_nc, code_nc2>>
    /\ StripUnchanged

NextStrip == Strip \/ StripAgain \/ TokenizeBoth

SpecStrip == InitStrip /\ [][NextStrip]_vars

(***************************************************************************)
(* parse_art_to_density.  The art text is a sequence of bytes 0..255; the  *)
(* density map is default_ascii_density_01, as main passes it.             *)
(***************************************************************************)
NL == 10

SPACE == 32

\* The lines of the split: from index start, up to each '\n' and to the end.
RECURSIVE SplitFrom(_, _, _)
SplitFrom(text, start, k) ==
    IF k >= Len(text) THEN << Slice(text, start, Len(text)) >>
    ELSE IF text[k + 1] = NL
         THEN << Slice(text, start, k) >> \o SplitFrom(text, k + 1, k + 1)
         ELSE SplitFrom(text, start, k + 1)

\* A variant of the lines that keeps the final empty line of the split.
ArtLinesKeepFinal(text, width_override, height_override) == SplitFrom(text, 0, 0)

\* The lines parse_art_to_density works on: the split, less the final empty
\* line when the text ends with '\n' and no override is given.
ArtLines(text, width_override, height_override) ==
    LET lines == SplitFrom(text, 0, 0)
    IN  IF /\ lines # << >> /\ lines[Len(lines)] = << >>
           /\ height_override = None /\ width_override = None
           /\ text # << >> /\ text[Len(text)] = NL
        THEN SubSeq(lines, 1, Len(lines) - 1)
        ELSE lines

\* The lambda utf8_to_u32, from index i of s.
RECURSIVE utf8_to_u32_from(_, _)
utf8_to_u32_from(s, i) ==
    IF i >= Len(s) THEN << >>
    ELSE LET c0 == s[i + 1]
         IN  IF c0 < 128 THEN <<c0>> \o utf8_to_u32_from(s, i + 1)
             ELSE IF c0 \div 32 = 6 /\ i + 1 < Len(s)
             THEN << (c0 % 32) * 64 + (s[i + 2] % 64) >> \o utf8_to_u32_from(s, i + 2)
             ELSE IF c0 \div 16 = 14 /\ i + 2 < Len(s)
             THEN << (c0 % 16) * 4096 + (s[i + 2] % 64) * 64 + (s[i + 3] % 64) >>
                  \o utf8_to_u32_from(s, i + 3)
             ELSE IF c0 \div 8 = 30 /\ i + 3 < Len(s)
             THEN << (c0 % 8) * 262144 + (s[i + 2] % 64) * 4096
                     + (s[i + 3] % 64) * 64 + (s[i + 4] % 64) >>
                  \o utf8_to_u32_from(s, i + 4)
             ELSE utf8_to_u32_from(s, i + 1)

utf8_to_u32(s) == utf8_to_u32_from(s, 0)

\* local_map.v[cp] for cp <= 127, and 1.0 for the code points above.
CellDensity(cp) == IF cp <= 127 THEN (IF cp = SPACE THEN 0 ELSE 1) ELSE 1

\* u32lines.resize(n) for n >= 0.
Resized(u32lines, n) ==
    [r \in 1..n |-> IF r <= Len(u32lines) THEN u32lines[r] ELSE << >>]

RECURSIVE MaxSize(_, _)
MaxSize(u32lines, k) ==
    IF k > Len(u32lines) THEN 0 ELSE Max2(Len(u32lines[k]), MaxSize(u32lines, k + 1))

\* parse_art_to_density(art_text, width_override, height_override, &map).
\* A negative size given to resize, assign or the vector's constructor is
\* above max_size(): std::length_error is thrown and nothing is returned.
parse_art_to_density(text, width_override, height_override) ==
    LET lines    == ArtLines(text, width_override, height_override)
        decoded  == [r \in 1..Len(lines) |-> utf8_to_u32(lines[r])]
        Hh       == IF height_override # None THEN height_override[1] ELSE Len(decoded)
        u32lines == IF Hh >= 0 THEN Resized(decoded, Hh) ELSE decoded
        Wmax     == MaxSize(u32lines, 1)
        Ww       == IF width_override # None THEN width_override[1]
                    ELSE IF u32lines = << >> THEN 80 ELSE Wmax
    IN  IF Hh < 0 \/ Ww < 0
        THEN [threw |-> TRUE, W |-> 0, H |-> 0, density |-> << >>]
        ELSE [threw |-> FALSE, W |-> Ww, H |-> Hh,
              density |-> [r \in 1..Hh |->
                             [c \in 1..Ww |->
                                IF c <= Len(u32lines[r])
                                THEN CellDensity(u32lines[r][c])
                                ELSE CellDensity(SPACE)]]]

\* The bounds of the arts: at most MaxArtH lines of at most MaxArtW cells.
MaxArtW == 2

MaxArtH == 2

\* A cell of an art: a code point and its UTF-8 bytes.
Hash == [cp |-> 35, bytes |-> <<35>>]

Blank == [cp |-> SPACE, bytes |-> <<SPACE>>]

\* U+00E9, U+20AC and U+1F600: two, three and four bytes.
EAcute == [cp |-> 233, bytes |-> <<195, 169>>]

Euro == [cp |-> 8364, bytes |-> <<226, 130, 172>>]

Grin == [cp |-> 128512, bytes |-> <<240, 159, 152, 128>>]

Cells == { Hash, Blank, EAcute }

CellLines == UNION { [1..n -> Cells] : n \in 0..MaxArtW }

\* An art: its lines, and whether a '\n' follows the last line.
Arts == { [lines |-> ls, nl |-> b] :
             ls \in UNION { [1..n -> CellLines] : n \in 1..MaxArtH }, b \in BOOLEAN }

\* Arts with code points of three and four bytes, the art "##\n#\n" and the
\* empty art.
WideArts ==
    { [lines |-> << <<Euro, Blank>>, <<EAcute>> >>, nl |-> FALSE],
      [lines |-> << <<Grin>>, <<Hash, Euro, Hash>> >>, nl |-> TRUE] }

OverrideArts ==
    WideArts \cup { [lines |-> << <<Hash, Hash>>, <<Hash>> >>, nl |-> TRUE],
                    [lines |-> << << >> >>, nl |-> FALSE] }

RECURSIVE LineBytes(_, _)
LineBytes(line, k) ==
    IF k > Len(line) THEN << >> ELSE line[k].bytes \o LineBytes(line, k + 1)

RECURSIVE ArtBytes(_, _)
ArtBytes(a, r) ==
    IF r > Len(a.lines) THEN << >>
    ELSE LineBytes(a.lines[r], 1)
         \o (IF r < Len(a.lines) \/ a.nl THEN <<NL>> ELSE << >>)
         \o ArtBytes(a, r + 1)

\* Byte sequences that are not UTF-8: a stray continuation byte, the byte
\* 0xFF, leads cut short by the end of the line, leads followed by ASCII.
BrokenArtTexts ==
    { <<128, 35>>, <<255, 35, NL>>, <<35, 195>>, <<195, NL, 35>>, <<226, 35, 35>>,
      <<240, 159>>, <<195, 35, 35>> }

DigitValue ==
    [c \in Digit |-> CHOOSE v \in 0..9 :
                        <<"0", "1", "2", "3", "4", "5", "6", "7", "8", "9">>[v + 1] = c]

\* The loop of parse_int from index i with the value acc so far: the value
\* read, or -1 at a character that is no digit or a value above 1'000'000'000.
RECURSIVE ParseIntLoop(_, _, _)
ParseIntLoop(s, i, acc) ==
    IF i >= Len(s) THEN acc
    ELSE IF ~isdigit(At(s, i)) THEN -1
    ELSE IF acc * 10 + DigitValue[At(s, i)] > 1000000000 THEN -1
    ELSE ParseIntLoop(s, i + 1, acc * 10 + DigitValue[At(s, i)])

\* parse_int(s, v): [ok, v].
parse_int(s) ==
    LET neg == s # << >> /\ s[1] = "-"
        acc == ParseIntLoop(s, IF neg THEN 1 ELSE 0, 0)
    IN  IF s = << >> \/ acc < 0 THEN [ok |-> FALSE, v |-> 0]
        ELSE [ok |-> TRUE, v |-> IF neg THEN 0 - acc ELSE acc]

\* The texts given after --width and --height.
OptionTexts ==
    { <<"-", "1">>, <<"0">>, <<"1">>, <<"3">>, <<"-">>, << >>, <<"x">>, <<"1", "a">>,
      <<"1", "0", "0", "0", "0", "0", "0", "0", "0", "1">> }

\* The overrides parse_args leaves in Args: none, or a value parse_int read.
Overrides ==
    { None } \cup { Some(parse_int(t).v) : t \in { x \in OptionTexts : parse_int(x).ok } }

InitArt ==
    /\ pc = "parse_art"
    /\ \/ /\ \E a \in Arts \cup WideArts : pieces = <<a>> /\ art_text = ArtBytes(a, 1)
          /\ width = None /\ height = None
       \/ /\ \E a \in OverrideArts : pieces = <<a>> /\ art_text = ArtBytes(a, 1)
          /\ width \in Overrides /\ height \in Overrides
       \/ /\ pieces = << >> /\ art_text \in BrokenArtTexts
          /\ width \in Overrides /\ height \in Overrides
    /\ art = NoArt
    /\ code_text = NoText /\ code_nc = NoText /\ code_nc2 = NoText
    /\ tokens = << >> /\ tokens2 = << >> /\ joined = NoText
    /\ sa = NoText /\ sb = NoText /\ sres = FALSE
    /\ LayoutIdle /\ CliIdle /\ GreedyIdle

ArtUnchanged ==
    UNCHANGED <<code_text, tokens, W, H, dens01, zero, stream, rngpos, taken, row, waifu,
                blobs, w_eff, dpvars, sa, sb, sres, joined, tokens2, stripvars, art_text,
                width, height, clivars, greedyvars>>

\* parse_art_to_density returns the Art.
ParseArtReturns ==
    /\ pc = "parse_art"
    /\ \E A \in { parse_art_to_density(art_text, width, height) } :
          /\ ~A.threw
          /\ art' = [W |-> A.W, H |-> A.H, density |-> A.density]
    /\ pc' = "art_done"
    /\ ArtUnchanged

\* parse_art_to_density throws std::length_error.
ParseArtThrows ==
    /\ pc = "parse_art"
    /\ parse_art_to_density(art_text, width, height).threw
    /\ pc' = "art_threw"
    /\ UNCHANGED art
    /\ ArtUnchanged

NextArt == ParseArtReturns \/ ParseArtThrows

SpecArt == InitArt /\ [][NextArt]_vars

(***************************************************************************)
(* A block comment between two tokens, read back: strip, then tokenize.    *)
(***************************************************************************)
\* Synthetic comments as convert_layout writes them, with no and with one
\* interior character.
GapComments == { <<"/", "*", "*", "/">>, <<"/", "*", "c", "*", "/">> }

InitGap ==
    /\ pc = "gap"
    /\ sa \in Atoms /\ sb \in Atoms
    /\ sres = FALSE
    /\ code_text = NoText /\ tokens = << >> /\ joined = NoText /\ tokens2 = << >>
    /\ LayoutIdle
    /\ StripIdle /\ ArtIdle /\ CliIdle /\ GreedyIdle

GapUnchanged ==
    UNCHANGED <<W, H, dens01, zero, stream, rngpos, taken, row, waifu, blobs, w_eff, dpvars,
                sa, sb, joined, tokens2, pieces, code_nc2, artvars, clivars, greedyvars>>

\* The text a + comment + b, and needs_separator(a, b).
CommentBetween ==
    /\ pc = "gap"
    /\ \E cm \in GapComments : code_text' = sa \o cm \o sb
    /\ sres' = needs_separator(sa, sb)
    /\ pc' = "gap_strip"
    /\ UNCHANGED <<code_nc, tokens>>
    /\ GapUnchanged

\* strip_comments_preserve_literals of the text
ReadBackStrip ==
    /\ pc = "gap_strip"
    /\ code_nc' = strip_comments_preserve_literals(code_text)
    /\ pc' = "gap_tokenize"
    /\ UNCHANGED <<code_text, tokens, sres>>
    /\ GapUnchanged

\* tokenize_minimal_cpp of the stripped text
ReadBackTokenize ==
    /\ pc = "gap_tokenize"
    /\ tokens' = tokenize_minimal_cpp(code_nc)
    /\ pc' = "gap_done"
    /\ UNCHANGED <<code_text, code_nc, sres>>
    /\ GapUnchanged

NextGap == CommentBetween \/ ReadBackStrip \/ ReadBackTokenize

SpecGap == InitGap /\ [][NextGap]_vars

\* The text convert_layout returns: every line followed by '\n'.
RECURSIVE OutputFrom(_, _, _)
OutputFrom(ls, lo, hi) ==
    IF lo > hi THEN << >>
    ELSE IF lo = hi THEN ls[lo] \o <<"\n">>
    ELSE OutputFrom(ls, lo, (lo + hi) \div 2) \o OutputFrom(ls, ((lo + hi) \div 2) + 1, hi)

OutputText == OutputFrom(waifu, 1, Len(waifu))

(***************************************************************************)
(* main: parse_args, read_file, strip, tokenize, parse_art_to_density,     *)
(* convert_layout, write.                                                  *)
(***************************************************************************)
CodeFiles ==
    { Missing, File(<< >>), File(<<"i", "n", "t">>),
      File(<<"i", "n", "t", " ", "a", "=", "1", ";">>) }

ArtFiles ==
    { Missing, File(<< >>),
      File(Rep(SPACE, 10) \o <<NL>> \o Rep(SPACE, 10) \o <<NL>>),
      File(<<35, 35, NL, 35, NL>>) }

\* The texts after --width and --height: neither given, 71 and 1, a
\* negative height, a width that is no number.
OptionPairs ==
    { <<None, None>>, <<Some(<<"7", "1">>), Some(<<"1">>)>>,
      <<None, Some(<<"-", "1">>)>>, <<Some(<<"x">>), None>> }

CliStreams == { <<1, 4, 2>>, <<0>> }

InitCli ==
    /\ pc = "main"
    /\ \E paths \in BOOLEAN, o \in OptionPairs :
          argv = [paths |-> paths, width |-> o[1], height |-> o[2]]
    /\ code_file \in CodeFiles
    /\ art_file \in ArtFiles
    /\ out_ok \in BOOLEAN
    /\ ndebug \in BOOLEAN
    /\ stream \in CliStreams
    /\ exit_code = Running /\ written = None
    /\ code_text = NoText /\ tokens = << >>
    /\ W = 0 /\ H = 0 /\ dens01 = << >> /\ zero = {}
    /\ rngpos = 0 /\ taken = 0 /\ row = 0 /\ waifu = << >> /\ blobs = << >> /\ w_eff = 0
    /\ DpIdle
    /\ sa = NoText /\ sb = NoText /\ sres = FALSE
    /\ joined = NoText /\ tokens2 = << >>
    /\ StripIdle /\ ArtIdle /\ GreedyIdle

\* parse_args: every option text is read by parse_int, and the three paths
\* are there.
ArgsAccepted(a) ==
    /\ a.width # None => parse_int(a.width[1]).ok
    /\ a.height # None => parse_int(a.height[1]).ok
    /\ a.paths

OptionValue(t) == IF t = None THEN None ELSE Some(parse_int(t[1]).v)

CliUnchanged ==
    UNCHANGED <<W, H, dens01, zero, stream, rngpos, taken, row, waifu, blobs, w_eff, dpvars,
                sa, sb, sres, joined, tokens2, pieces, code_nc2,
                argv, code_file, art_file, out_ok, ndebug, greedyvars>>

\* if (!parse_args(argc, argv, args)) return 2;
ParseArgsFails ==
    /\ pc = "main"
    /\ ~ArgsAccepted(argv)
    /\ exit_code' = 2
    /\ pc' = "exited"
    /\ UNCHANGED <<code_text, art_text, code_nc, tokens, width, height, art, written>>
    /\ CliUnchanged

ParseArgs ==
    /\ pc = "main"
    /\ ArgsAccepted(argv)
    /\ width' = OptionValue(argv.width)
    /\ height' = OptionValue(argv.height)
    /\ pc' = "read"
    /\ UNCHANGED <<code_text, art_text, code_nc, tokens, art, exit_code, written>>
    /\ CliUnchanged

\* read_file: the bytes of the file, or nothing when it does not open.
read_file(f) == IF f.exists THEN f.data ELSE << >>

ReadInputs ==
    /\ pc = "read"
    /\ code_text' = read_file(code_file)
    /\ art_text' = read_file(art_file)
    /\ pc' = "strip"
    /\ UNCHANGED <<code_nc, tokens, width, height, art, exit_code, written>>
    /\ CliUnchanged

StripAndTokenize ==
    /\ pc = "strip"
    /\ code_nc' = strip_comments_preserve_literals(code_text)
    /\ tokens' = tokenize_minimal_cpp(strip_comments_preserve_literals(code_text))
    /\ pc' = "parse_art"
    /\ UNCHANGED <<code_text, art_text, width, height, art, exit_code, written>>
    /\ CliUnchanged

\* The exception of parse_art_to_density is caught nowhere: std::terminate.
Terminate ==
    /\ pc = "art_threw"
    /\ exit_code' = Aborted
    /\ pc' = "exited"
    /\ UNCHANGED <<code_text, art_text, code_nc, tokens, width, height, art, written>>
    /\ CliUnchanged

\* convert_layout, up to the loop: the assert holds, or the build has none.
EnterLayout ==
    /\ pc = "art_done"
    /\ Precondition(tokens, art.W) \/ ndebug
    /\ W' = art.W /\ H' = art.H
    /\ dens01' = art.density
    /\ zero' = default_ascii_density_01
    /\ rngpos' = 0 /\ taken' = 0 /\ row' = 0
    /\ waifu' = << >> /\ blobs' = << >> /\ w_eff' = 0
    /\ dp' = << >> /\ back_point' = << >> /\ optimal_state' = <<0, 0, 0>>
    /\ pc' = "loop"
    /\ UNCHANGED <<code_text, tokens, stream, sa, sb, sres, joined, tokens2,
                   stripvars, artvars, clivars, greedyvars>>

\* assert(std::max(min_width, maxl) < W_BOUND) fails: abort().
AssertFails ==
    /\ pc = "art_done"
    /\ ~ndebug
    /\ ~Precondition(tokens, art.W)
    /\ exit_code' = Aborted
    /\ pc' = "exited"
    /\ UNCHANGED <<code_text, art_text, code_nc, tokens, width, height, art, written>>
    /\ CliUnchanged

\* The output stream opens: write output_code, return 0.
WriteOutput ==
    /\ pc = "done"
    /\ out_ok
    /\ written' = Some(OutputText)
    /\ exit_code' = 0
    /\ pc' = "exited"
    /\ UNCHANGED <<code_text, art_text, code_nc, tokens, width, height, art>>
    /\ CliUnchanged

\* if (!ofs) return 3;
OpenFails ==
    /\ pc = "done"
    /\ ~out_ok
    /\ exit_code' = 3
    /\ pc' = "exited"
    /\ UNCHANGED <<code_text, art_text, code_nc, tokens, width, height, art, written>>
    /\ CliUnchanged

NextCli ==
    \/ ParseArgsFails \/ ParseArgs \/ ReadInputs \/ StripAndTokenize
    \/ ParseArtReturns \/ ParseArtThrows \/ Terminate
    \/ EnterLayout \/ AssertFails
    \/ ImageRow \/ OverflowRow \/ Return
    \/ WriteOutput \/ OpenFails

SpecCli == InitCli /\ [][NextCli]_vars

(***************************************************************************)
(* tokenize_minimal_cpp on its own: the source is put together from        *)
(* lexemes, each one token of a known class, and whitespace.               *)
(***************************************************************************)
MaxLexemes == 3

\* Lexemes that start or continue one another when they touch: a raw
\* string that holds a quote, a string that holds a space, a character
\* literal, the prefixes u8 and R as identifiers, a number and punctuators.
Lexemes ==
    { Literal("raw", <<"R", "\"", "x", "(", "a", "\"", ")", "x", "\"">>),
      Literal("string", <<"\"", "a", " ", "b", "\"">>),
      Literal("char", <<"'", "a", "'">>),
      Literal("identifier", <<"u", "8">>),
      Literal("identifier", <<"R">>),
      Literal("number", <<"1", ".", "5">>),
      Literal("punctuator", <<">", ">">>),
      Literal("single", <<"=">>),
      Literal("single", <<"-">>),
      Literal("single", <<"/">>) }

WhiteSpacePieces == { Piece("space", <<" ">>, << >>) }

\* One lexeme of every other shape, each alone and after an identifier.
OtherLexemes ==
    { Literal("raw", <<"u", "8", "R", "\"", "(", "a", ")", "\"">>),
      Literal("raw", <<"L", "R", "\"", "d", "(", " ", ")", "d", "\"">>),
      Literal("raw", <<"R", "\"", "x", "(", "a", " ", "b">>),
      Literal("string", <<"u", "8", "\"", "a", "\"">>),
      Literal("string", <<"L", "\"", "\\", "\"", "\"">>),
      Literal("string", <<"\"", "a", " ", "b">>),
      Literal("char", <<"u", "'", "b", "'">>),
      Literal("char", <<"'", "\\", "'", "'">>),
      Literal("char", <<"'", " ", "'">>),
      Literal("identifier", <<"_", "x", "1">>),
      Literal("identifier", <<"L">>),
      Literal("number", <<"0", "x", "1", "F">>),
      Literal("number", <<"1", "'", "0", "0", "0">>),
      Literal("number", <<"1", "e", "5">>),
      Literal("punctuator", <<">", ">", "=">>),
      Literal("punctuator", <<"<", "<", "=">>),
      Literal("punctuator", <<"-", ">", "*">>),
      Literal("punctuator", <<"-", ">">>),
      Literal("punctuator", <<":", ":">>),
      Literal("punctuator", <<"/", "=">>),
      Literal("punctuator", <<"#", "#">>),
      Literal("single", <<".">>),
      Literal("single", <<";">>),
      Literal("single", <<"#">>) }

TabAndNewline == { Piece("space", <<"\t">>, << >>), Piece("space", <<"\n">>, << >>) }

\* Every text of at most MaxLen characters of quotes, the backslash, R, the
\* parentheses and the space, as one piece of no known class.
LexAlphabet == {"\"", "'", "\\", "R", "(", ")", " "}

AnyTexts == { Literal("text", t) : t \in UNION { [1..n -> LexAlphabet] : n \in 1..MaxLen } }

LexemeSeqs ==
    UNION { [1..n -> Lexemes \cup WhiteSpacePieces] : n \in 0..MaxLexemes }
    \cup { <<p>> : p \in OtherLexemes \cup AnyTexts }
    \cup { <<Literal("identifier", <<"a">>), s, p>> : s \in TabAndNewline, p \in OtherLexemes }

InitLex ==
    /\ pc = "lex"
    /\ pieces \in LexemeSeqs
    /\ code_text = PiecesText(pieces, 1)
    /\ code_nc = NoText /\ code_nc2 = NoText
    /\ tokens = << >> /\ tokens2 = << >> /\ joined = NoText
    /\ sa = NoText /\ sb = NoText /\ sres = FALSE
    /\ LayoutIdle /\ ArtIdle /\ CliIdle /\ GreedyIdle

\* tokenize_minimal_cpp(code)
Lex ==
    /\ pc = "lex"
    /\ tokens' = tokenize_minimal_cpp(code_text)
    /\ pc' = "lexed"
    /\ UNCHANGED <<code_nc, code_nc2, tokens2>>
    /\ StripUnchanged

NextLex == Lex

SpecLex == InitLex /\ [][NextLex]_vars

(***************************************************************************)
(* The greedy convert_layout of src/waifufy_core.cpp: tokens are placed in *)
(* order, line by line, and the rest of a line is filled by fill_remainder.*)
(* taken is the index i of the token loop; cur_line holds the blobs of     *)
(* line, and waifu and blobs hold the lines appended to out.               *)
(***************************************************************************)
\* is_one(r, c) of the greedy layout: in range and target_density > 0.5.
is_one(dens, w, h, r, c) ==
    IF r < 0 \/ r >= h \/ c < 0 \/ c >= w THEN FALSE ELSE dens[r + 1][c + 1] = 1

\* pick_dense_char(): the first of '.', '*', '#' the density map holds
\* dense, else 'X'.
pick_dense_char(zr) ==
    IF "." \notin zr THEN "."
    ELSE IF "*" \notin zr THEN "*"
    ELSE IF "#" \notin zr THEN "#"
    ELSE "X"

\* The content of the comment fill_remainder writes from column c_start:
\* content_len characters, the k-th at column c_start + 3 + k.
FillContent(dens, w, h, zr, r, c_start, content_len) ==
    LET dense_ch == pick_dense_char(zr)
    IN  [x \in 1..content_len |->
            LET k  == x - 1
                ch == IF is_one(dens, w, h, r, c_start + 1 + 2 + k) THEN dense_ch ELSE " "
            IN  IF k = content_len - 1 /\ ch = "*"
                THEN (IF dense_ch = "*" THEN "." ELSE dense_ch)
                ELSE ch]

\* fill_remainder(r, c_start, dst): the blobs appended to dst.
fill_remainder(dens, w, h, zr, r, c_start) ==
    LET width0 == w - c_start
        ones == Cardinality({ j \in c_start..(w - 1) : is_one(dens, w, h, r, j) })
        overhead == 4
        threshold == 8
        spaces == << [kind |-> "space", text |-> [x \in 1..width0 |-> " "]] >>
    IN  IF c_start >= w THEN << >>
        ELSE IF r < 0 \/ r >= h THEN spaces
        ELSE IF width0 >= overhead + 1 /\ ones >= threshold /\ width0 - 1 >= overhead
        THEN << [kind |-> "space", text |-> <<" ">>],
                [kind |-> "comment",
                 text |-> <<"/", "*">>
                          \o FillContent(dens, w, h, zr, r, c_start, width0 - 1 - 2 - 2)
                          \o <<"*", "/">>] >>
        ELSE spaces

\* The adaptive extra spaces before a token: the zero-density cells from
\* column c on, at most cap of them, none once row >= H.
RECURSIVE ExtraFrom(_, _, _, _, _, _)
ExtraFrom(dens, w, h, r, c, extra) ==
    IF c + extra < w /\ extra < 6 /\ ~is_one(dens, w, h, r, c + extra)
    THEN ExtraFrom(dens, w, h, r, c, extra + 1)
    ELSE extra

Extra(dens, w, h, r, c) == IF r < h THEN ExtraFrom(dens, w, h, r, c, 0) ELSE 0

\* int sep of the token loop.
GreedySep(pv, tok) == IF pv # << >> /\ needs_separator(pv, tok) THEN 1 ELSE 0

\* The lines the model lets out grow to; the loop itself has no bound.
MaxGreedyRows == 5

\* Source texts: no token, a declaration, a division, an identifier as long
\* as the line, one longer than the line alone and one among other tokens.
GreedySources ==
    { << >>,
      <<"i", "n", "t", " ", "a", "=", "1", ";">>,
      <<"x", "=", "y", "/", "z", ";">>,
      Rep("q", min_width),
      Rep("q", min_width + 1),
      <<"a", "=">> \o Rep("q", min_width + 1) \o <<";">> }

InitGreedy ==
    /\ pc = "greedy"
    /\ code_text \in GreedySources
    /\ tokens = tokenize_minimal_cpp(strip_comments_preserve_literals(code_text))
    /\ W = min_width
    /\ H \in 0..MaxH
    /\ \E st \in Settings :
          /\ dens01 = ArtOf(st.p, W, H)
          /\ zero = st.zero
          /\ stream = st.stream
    /\ rngpos = 0 /\ taken = 0 /\ row = 0
    /\ waifu = << >> /\ blobs = << >> /\ w_eff = 0
    /\ DpIdle
    /\ cur_col = 0 /\ cur_line = << >> /\ prev_tok = << >>
    /\ sa = NoText /\ sb = NoText /\ sres = FALSE
    /\ joined = NoText /\ tokens2 = << >>
    /\ StripIdle /\ ArtIdle /\ CliIdle

GreedyUnchanged ==
    UNCHANGED <<code_text, tokens, W, H, dens01, zero, stream, rngpos, w_eff, dpvars,
                sa, sb, sres, joined, tokens2, stripvars, artvars, clivars>>

\* The token loop, the token does not fit: fill the line, append it to out
\* and reprocess the token on the next line.
GreedyWrap ==
    /\ pc = "greedy"
    /\ taken < Len(tokens)
    /\ row < MaxGreedyRows
    /\ LET tok == tokens[taken + 1]
           sep == GreedySep(prev_tok, tok)
           extra == Extra(dens01, W, H, row, cur_col + sep)
           full == cur_line \o fill_remainder(dens01, W, H, zero, row, cur_col)
       IN  /\ cur_col + sep + extra + Len(tok) > W
           /\ waifu' = Append(waifu, RowText(full))
           /\ blobs' = Append(blobs, full)
    /\ cur_line' = << >> /\ cur_col' = 0 /\ prev_tok' = << >>
    /\ row' = row + 1
    /\ pc' = "greedy"
    /\ UNCHANGED taken
    /\ GreedyUnchanged

\* The token loop, the token fits: emit the spaces and the token, and
\* append the line to out when it reaches W.
GreedyPlace ==
    /\ pc = "greedy"
    /\ taken < Len(tokens)
    /\ LET tok == tokens[taken + 1]
           sep == GreedySep(prev_tok, tok)
           extra == Extra(dens01, W, H, row, cur_col + sep)
           placed == cur_line
                     \o (IF sep + extra > 0
                         THEN << [kind |-> "space", text |-> [x \in 1..(sep + extra) |-> " "]] >>
                         ELSE << >>)
                     \o << [kind |-> "token", text |-> tok] >>
           c == cur_col + sep + extra + Len(tok)
       IN  /\ ~(cur_col + sep + extra + Len(tok) > W)
           /\ IF c >= W
              THEN /\ waifu' = Append(waifu, RowText(placed))
                   /\ blobs' = Append(blobs, placed)
                   /\ cur_line' = << >> /\ cur_col' = 0 /\ prev_tok' = << >>
                   /\ row' = row + 1
              ELSE /\ cur_line' = placed /\ cur_col' = c /\ prev_tok' = tok
                   /\ UNCHANGED <<waifu, blobs, row>>
    /\ taken' = taken + 1
    /\ pc' = "greedy"
    /\ GreedyUnchanged

\* After the token loop: flush the last partially filled line.
GreedyFlush ==
    /\ pc = "greedy"
    /\ taken >= Len(tokens)
    /\ IF cur_col > 0 \/ row < H
       THEN LET full == cur_line \o fill_remainder(dens01, W, H, zero, row, cur_col)
            IN  /\ waifu' = Append(waifu, RowText(full))
                /\ blobs' = Append(blobs, full)
                /\ cur_line' = << >>
                /\ row' = row + 1
       ELSE UNCHANGED <<waifu, blobs, cur_line, row>>
    /\ pc' = "greedy_pad"
    /\ UNCHANGED <<taken, cur_col, prev_tok>>
    /\ GreedyUnchanged

\* while (row < H): pad the remaining rows.
GreedyPad ==
    /\ pc = "greedy_pad"
    /\ row < H
    /\ LET full == cur_line \o fill_remainder(dens01, W, H, zero, row, 0)
       IN  /\ waifu' = Append(waifu, RowText(full))
           /\ blobs' = Append(blobs, full)
    /\ cur_line' = << >>
    /\ row' = row + 1
    /\ pc' = "greedy_pad"
    /\ UNCHANGED <<taken, cur_col, prev_tok>>
    /\ GreedyUnchanged

\* return out
GreedyReturn ==
    /\ pc = "greedy_pad"
    /\ ~(row < H)
    /\ pc' = "greedy_done"
    /\ UNCHANGED <<taken, row, waifu, blobs, greedyvars>>
    /\ GreedyUnchanged

NextGreedy == GreedyWrap \/ GreedyPlace \/ GreedyFlush \/ GreedyPad \/ GreedyReturn

SpecGreedy == InitGreedy /\ [][NextGreedy]_vars

(***************************************************************************)
(* Properties of convert_layout.                                           *)
(***************************************************************************)
IsToken(b) == b.kind = "token"

IsComment(b) == b.kind = "comment"

\* The texts of the token blobs of a line, in order.
TokensOf(bs) == LET tb == SelectSeq(bs, IsToken) IN [k \in 1..Len(tb) |-> tb[k].text]

RECURSIVE TokensOfRows(_, _, _)
TokensOfRows(rs, lo, hi) ==
    IF lo > hi THEN << >>
    ELSE IF lo = hi THEN TokensOf(rs[lo])
    ELSE TokensOfRows(rs, lo, (lo + hi) \div 2) \o TokensOfRows(rs, ((lo + hi) \div 2) + 1, hi)

\* The texts of the token blobs of the whole output, in order.
EmittedTokens == TokensOfRows(blobs, 1, Len(blobs))

\* The tokens emitted in the image band, the first H lines.
ImageBandTokens ==
    TokensOfRows(blobs, 1, IF Len(blobs) < H THEN Len(blobs) ELSE H)

\* C1: once convert_layout has returned, stripping the comments of its
\* output and tokenizing what is left gives exactly the input token list.
C1_TokenPreservation ==
    pc = "done" =>
        tokenize_minimal_cpp(strip_comments_preserve_literals(OutputText)) = tokens

\* C2: the token blobs emitted so far are exactly the first `taken` tokens,
\* in order and unmodified; every line of the output is the concatenation of
\* its blobs; and at the return every token has been emitted.
C2_TokensVerbatimInOrder ==
    /\ EmittedTokens = SubSeq(tokens, 1, taken)
    /\ Len(blobs) = Len(waifu)
    /\ \A r \in 1..Len(blobs) : RowText(blobs[r]) = waifu[r]
    /\ pc = "done" => taken = Len(tokens)

\* C2's case: a finished run that emitted tokens in an image row and in a
\* later line, at least four tokens in all.
C2_Witness ==
    /\ pc = "done" /\ H >= 1 /\ Len(waifu) > H /\ Len(tokens) >= 4
    /\ \E r \in 1..H : TokensOf(blobs[r]) # << >>
    /\ TokensOf(blobs[H + 1]) # << >>

\* C3: two token blobs that follow each other on a line with no blob
\* between them never need a separator.
C3_SeparatorSafety ==
    \A r \in 1..Len(blobs) : \A k \in 1..(Len(blobs[r]) - 1) :
        (IsToken(blobs[r][k]) /\ IsToken(blobs[r][k + 1]))
            => ~needs_separator(blobs[r][k].text, blobs[r][k + 1].text)

\* C3's case: an image row that holds two adjacent tokens and, elsewhere, a
\* pair of consecutive tokens that needs a separator and got one.
C3_Witness ==
    /\ pc = "done"
    /\ \E r \in 1..Len(blobs) :
          /\ r <= H
          /\ \E k \in 1..(Len(blobs[r]) - 1) :
                IsToken(blobs[r][k]) /\ IsToken(blobs[r][k + 1])
          /\ \E k \in 1..(Len(TokensOf(blobs[r])) - 1) :
                needs_separator(TokensOf(blobs[r])[k], TokensOf(blobs[r])[k + 1])

C5_LineWidthBand ==
    \A r \in 1..Len(waifu) :
        /\ Len(waifu[r]) < W_BOUND(W)
        /\ r <= H => Len(waifu[r]) >= W
        /\ r > H => Len(waifu[r]) >= 1

\* C5's case: a finished run with an image row and an overflow line that
\* is longer than W.
C5_Witness ==
    /\ pc = "done" /\ H >= 1
    /\ \E r \in (H + 1)..Len(waifu) : Len(waifu[r]) > W

\* C6: one line per iteration; at the return there are at least H lines, and
\* more than H exactly when the image band left tokens unemitted.
C6_LineCount ==
    /\ Len(waifu) = row
    /\ pc = "done" =>
          /\ Len(waifu) >= H
          /\ Len(waifu) > H <=> Len(ImageBandTokens) < Len(tokens)

\* C6's case: a finished run of H >= 1 image rows that consumed some but not
\* all of the tokens, followed by overflow lines.
C6_Witness ==
    /\ pc = "done" /\ H >= 1 /\ Len(waifu) > H
    /\ Len(ImageBandTokens) > 0

\* C7: every comment blob is '/*', an interior of spaces and lowercase
\* letters, '*/'; and on no line does the scanner end inside a block comment.
C7_CommentWellFormed ==
    \A r \in 1..Len(blobs) :
        /\ \A k \in 1..Len(blobs[r]) :
              IsComment(blobs[r][k]) =>
                  LET c == blobs[r][k].text
                  IN  /\ Len(c) >= 4
                      /\ SubSeq(c, 1, 2) = <<"/", "*">>
                      /\ SubSeq(c, Len(c) - 1, Len(c)) = <<"*", "/">>
                      /\ \A x \in 3..(Len(c) - 2) : c[x] \in Lower \cup {" "}
        /\ StripRun(waifu[r]).st # "InBlock"

\* C7's case: a row that holds a string literal with a comment opener inside
\* and a comment with letters in it.
C7_Witness ==
    \E r \in 1..Len(blobs) :
        /\ \E k \in 1..Len(blobs[r]) :
              IsToken(blobs[r][k]) /\ blobs[r][k].text = <<"\"", "/", "*", "\"">>
        /\ \E k \in 1..Len(blobs[r]) :
              /\ IsComment(blobs[r][k])
              /\ \E x \in 3..(Len(blobs[r][k].text) - 2) : blobs[r][k].text[x] \in Lower

\* C8: every iteration adds one to row and never lowers taken, which stays
\* within 0..|tokens|; an overflow iteration consumes a token; the loop is
\* left exactly when taken = |tokens| and row >= H; and it is left eventually.
C8_TerminationAndMonotonicity ==
    /\ [][ /\ (pc' = "loop" => /\ row' = row + 1
                               /\ taken' >= taken
                               /\ (row >= H => taken' > taken))
           /\ taken' \in 0..Len(tokens)
           /\ (pc' = "done" <=> (taken = Len(tokens) /\ row >= H)) ]_vars
    /\ <>(pc = "done")

\* C8's case: the loop was left after image rows and overflow iterations.
C8_Witness ==
    pc = "done" /\ H >= 1 /\ row > H + 1 /\ taken = Len(tokens)

(***************************************************************************)
(* Properties of needs_separator and join_tokens_min_sep.                  *)
(***************************************************************************)
\* The five hazard classes, stated on the last one or two characters of a
\* and the first one or two characters of b.
HazardTable(a, b) ==
    LET LastN(n)  == SubSeq(a, Len(a) - n + 1, Len(a))
        FirstN(n) == SubSeq(b, 1, n)
        Word == Lower \cup Upper \cup Digit \cup {"_"}
        Punctuators ==
            { <<">", ">", "=">>, <<"<", "<", "=">>, <<"-", ">", "*">>, <<":", ":">>,
              <<"-", ">">>, <<"+", "+">>, <<"-", "-">>, <<"<", "<">>, <<">", ">">>,
              <<"&", "&">>, <<"|", "|">>, <<"=", "=">>, <<"!", "=">>, <<"<", "=">>,
              <<">", "=">>, <<"+", "=">>, <<"-", "=">>, <<"*", "=">>, <<"/", "=">>,
              <<"%", "=">>, <<"&", "=">>, <<"|", "=">>, <<"^", "=">>, <<"#", "#">>,
              <<".", ".", ".">> }
    IN  /\ a # << >> /\ b # << >>
        /\ \/ LastN(1)[1] \in Word /\ FirstN(1)[1] \in Word
           \/ LastN(1) \o FirstN(1) \in { <<"/", "/">>, <<"/", "*">>, <<"*", "/">> }
           \/ \E m \in 1..2 : \E n \in 1..2 :
                 m <= Len(a) /\ n <= Len(b) /\ LastN(m) \o FirstN(n) \in Punctuators
           \/ LastN(1)[1] \in {"\"", "'"} \cup Digit /\ FirstN(1)[1] \in Lower \cup Upper \cup {"_"}
           \/ LastN(1)[1] = "." /\ FirstN(1)[1] \in Digit
           \/ LastN(1)[1] \in Digit /\ FirstN(1)[1] = "."

\* C9: needs_separator(a, b) is true exactly when one of the five hazard
\* classes holds, false when a or b is empty, and gives the listed values.
C9_NeedsSeparatorTable ==
    /\ pc = "sep_done" => (sres <=> HazardTable(sa, sb))
    /\ needs_separator(<<"/">>, <<"/">>)
    /\ needs_separator(<<"/">>, <<"*">>)
    /\ needs_separator(<<"*">>, <<"/">>)
    /\ needs_separator(<<"4", "2">>, <<"m", "s">>)
    /\ ~needs_separator(<<"/">>, <<"+">>)
    /\ ~needs_separator(<<"4", "2">>, <<"+">>)

\* C9's case: the call on a literal and a suffix has returned true.
C9_Witness ==
    pc = "sep_done" /\ sa = <<"\"", "h", "i", "\"">> /\ sb = <<"s">> /\ sres

\* C10: tokenizing the minimal join of the tokens of a comment-free source
\* gives the same tokens, and "int x=1+2;" is joined to itself.
C10_TokenizeJoinRoundTrip ==
    pc = "round_trip_done" =>
        /\ tokens2 = tokens
        /\ code_text = <<"i", "n", "t", " ", "x", "=", "1", "+", "2", ";">>
               => joined = code_text

(***************************************************************************)
(* Properties of the comment stripper.                                     *)
(***************************************************************************)
\* C11: tokenizing the text stripped once gives the same tokens as
\* tokenizing the text stripped twice.
C11_IdempotentTokenization ==
    pc = "strip_done" => tokens = tokens2

\* The pieces are literals, comments and plain text only.
OnlyLiteralsAndComments ==
    \A k \in 1..Len(pieces) : pieces[k] \in LiteralPieces \cup CommentPieces

\* C12: of a text made of literals, comments and plain text, the stripper
\* emits every literal and all plain text unchanged and in order, nothing of
\* a block comment, and of a line comment only the newline that ends it.
C12_LiteralsKeptCommentsDropped ==
    (pc # "strip" /\ OnlyLiteralsAndComments) => code_nc = PiecesKept(pieces, 1)

\* The scanner's state when its index first reaches pos.
RECURSIVE StripUntil(_, _, _)
StripUntil(code, s, pos) ==
    IF s.i >= pos \/ s.i >= Len(code) THEN s
    ELSE StripUntil(code, StripStep(code, s), pos)

\* The index in code_text at which piece k starts, and the one after its end.
PieceStart(k) == Len(PiecesText(SubSeq(pieces, 1, k - 1), 1))

PieceEnd(k) == PieceStart(k) + Len(pieces[k].text)

\* C13: the stripper leaves a raw string at its closing )d" and is in Normal
\* right after it, also when d is empty; the tokenizer ends the raw string
\* at the same place; and a comment after the raw string is stripped.
C13_RawStringCloses ==
    (pc # "strip" /\ OnlyLiteralsAndComments) =>
        \A k \in 1..Len(pieces) :
            pieces[k].kind = "raw" =>
                /\ StripUntil(code_text, StripInit, PieceEnd(k)).i = PieceEnd(k)
                /\ StripUntil(code_text, StripInit, PieceEnd(k)).st = "Normal"
                /\ TokenEnd(code_text, PieceStart(k)) = PieceEnd(k)
                /\ (k < Len(pieces) /\ pieces[k + 1] \in CommentPieces
                      => code_nc = PiecesKept(pieces, 1))

\* A delimiter of at most 16 characters, none of them ')', '\' or whitespace.
DelimiterInBounds(d) ==
    /\ Len(d) <= 16
    /\ \A x \in 1..Len(d) : d[x] # ")" /\ d[x] # "\\" /\ ~isspace(d[x])

\* C14: of R"d( "//c )d", the stripper keeps the whole text (it took the
\* opener for a raw string's) and the tokenizer makes it one token exactly
\* when d has at most 16 characters and none of ')', '\' and whitespace.
C14_RawDelimiterBound ==
    (pc # "strip" /\ Len(pieces) = 1 /\ pieces[1].kind = "rawcand") =>
        /\ (code_nc = code_text) <=> DelimiterInBounds(pieces[1].delim)
        /\ (tokenize_minimal_cpp(code_text) = <<code_text>>)
              <=> DelimiterInBounds(pieces[1].delim)

(***************************************************************************)
(* Properties of parse_art_to_density.                                     *)
(***************************************************************************)
\* The lines of the art a as the text shows them: a split on '\n', less one
\* trailing empty line when the text ends with '\n'.
VisibleLines(a) ==
    LET split == a.lines \o (IF a.nl THEN << << >> >> ELSE << >>)
    IN  IF Len(split) >= 2 /\ split[Len(split)] = << >>
        THEN SubSeq(split, 1, Len(split) - 1)
        ELSE split

\* The Art of a: as many rows as visible lines, as wide as the longest line
\* in code points, a cell's density that of its code point, 1 beyond ASCII,
\* and 0 where the line is shorter.
ExpectedArt(a) ==
    LET ls == VisibleLines(a)
        w  == MaxSize(ls, 1)
    IN  [W |-> w, H |-> Len(ls),
         density |-> [r \in 1..Len(ls) |->
                        [c \in 1..w |->
                           IF c > Len(ls[r]) THEN 0
                           ELSE IF ls[r][c].cp > 127 THEN 1
                           ELSE IF ls[r][c].cp = SPACE THEN 0 ELSE 1]]]

\* C15: with no override, parse_art_to_density returns the Art of the
\* visible lines of the text, and for "##\n#\n" it returns W = 2, H = 2 with
\* the rows [1,1] and [1,0].
C15_ArtWithoutOverrides ==
    (pc = "art_done" /\ width = None /\ height = None /\ pieces # << >>) =>
        /\ art = ExpectedArt(pieces[1])
        /\ art_text = <<35, 35, NL, 35, NL>>
              => art = [W |-> 2, H |-> 2, density |-> << <<1, 1>>, <<1, 0>> >>]

C15_Witness ==
    /\ pc = "art_done" /\ width = None /\ height = None
    /\ art_text = <<35, 35, NL, 35, NL>>
    /\ art.H = 2

\* C16: for every art text and every pair of overrides, parse_art_to_density
\* returns, and the Art it returns has H >= 0, W >= 0 and H rows of W cells.
C16_ArtDimensions ==
    /\ pc # "art_threw"
    /\ pc = "art_done" =>
          /\ art.H >= 0 /\ art.W >= 0
          /\ Len(art.density) = art.H
          /\ \A r \in 1..art.H : Len(art.density[r]) = art.W

(***************************************************************************)
(* Properties of main.                                                     *)
(***************************************************************************)
\* C17: a run whose arguments parse_args accepts and whose output path
\* opens ends with exit status 0 and the output written, whatever the code
\* file and the art file are; exit status 2 is for arguments that are not
\* accepted and 3 for an output path that does not open.
C17_PipelineAlwaysWrites ==
    pc = "exited" =>
        /\ (ArgsAccepted(argv) /\ out_ok) => (exit_code = 0 /\ written # None)
        /\ exit_code = 2 => ~ArgsAccepted(argv)
        /\ exit_code = 3 => ~out_ok
        /\ exit_code \in {0, 2, 3}

\* The token "int" and the art of two rows of ten cells of density 0.
MinimalScenario ==
    /\ tokens = << <<"i", "n", "t">> >>
    /\ art = [W |-> 10, H |-> 2, density |-> [r \in 1..2 |-> [c \in 1..10 |-> 0]]]

Occurs(tok, line) ==
    \E x \in 1..(Len(line) - Len(tok) + 1) : SubSeq(line, x, x + Len(tok) - 1) = tok

\* C18: given the token "int" and the art of two rows of ten cells of
\* density 0, convert_layout returns, and what it returns is two lines, each
\* of 10 to 19 characters, one of which holds int.
C18_MinimalEndToEnd ==
    MinimalScenario =>
        /\ exit_code # Aborted
        /\ pc \in {"done", "exited"} =>
              /\ Len(waifu) = 2
              /\ \A r \in 1..Len(waifu) : Len(waifu[r]) >= 10 /\ Len(waifu[r]) < 20
              /\ \E r \in 1..Len(waifu) : Occurs(<<"i", "n", "t">>, waifu[r])

(***************************************************************************)
(* Properties of the overflow tail and of comments as separators.          *)
(***************************************************************************)
\* The blobs of an overflow line are tokens with single spaces between
\* them: a token first and last, a space exactly between two tokens that
\* need a separator.
OverflowLineShape(bs) ==
    /\ bs # << >>
    /\ bs[1].kind = "token" /\ bs[Len(bs)].kind = "token"
    /\ \A x \in 1..Len(bs) :
          \/ bs[x].kind = "token"
          \/ /\ bs[x].kind = "space" /\ bs[x].text = <<" ">>
             /\ 1 < x /\ x < Len(bs)
             /\ bs[x - 1].kind = "token" /\ bs[x + 1].kind = "token"
             /\ needs_separator(bs[x - 1].text, bs[x + 1].text)
    /\ \A x \in 1..(Len(bs) - 1) :
          (bs[x].kind = "token" /\ bs[x + 1].kind = "token")
              => ~needs_separator(bs[x].text, bs[x + 1].text)

\* C19: every line of the overflow tail holds at least one token, its
\* tokens are the next tokens in order with one space exactly where
\* needs_separator asks for one and none before the first, and the line is
\* longer than its W_eff, which lies in [W, W + shoot), only when it holds a
\* single token.
C19_OverflowTail ==
    /\ \A r \in (H + 1)..Len(blobs) :
          /\ OverflowLineShape(blobs[r])
          /\ waifu[r] = RowText(blobs[r])
          /\ TokensOfRows(blobs, 1, r)
                = SubSeq(tokens, 1, Len(TokensOfRows(blobs, 1, r)))
    /\ (row > H /\ Len(waifu) = row) =>
          /\ w_eff >= W /\ w_eff < W + shoot
          /\ Len(waifu[row]) > w_eff => Len(blobs[row]) = 1

C19_Witness ==
    /\ row > H /\ Len(waifu) = row
    /\ Len(waifu[row]) > w_eff

\* a is one token of the tokenizer.
SingleToken(a) == tokenize_minimal_cpp(a) = <<a>>

\* C20: for two tokens a and b that need a separator, the text a, a block
\* comment, b is stripped and tokenized back into the two tokens a and b.
C20_CommentSeparates ==
    (pc = "gap_done" /\ SingleToken(sa) /\ SingleToken(sb) /\ sres)
        => tokens = <<sa, sb>>

(***************************************************************************)
(* Properties of the greedy convert_layout.                                *)
(***************************************************************************)
\* The line holds no token: it is filler only.
FillerOnly(bs) == TokensOf(bs) = << >>

\* C21: the greedy layout does not stall on a token longer than W.  Whenever
\* a filler-only line has been appended to out while the next token to
\* place is longer than W, the line after it holds that token alone; and
\* once the layout has returned, every token has been placed, in order.
C21_LongTokenSafety ==
    /\ pc \in {"greedy", "greedy_pad", "greedy_done"} =>
          \A r \in 1..(Len(blobs) - 1) :
              LET k == Len(TokensOfRows(blobs, 1, r))
              IN  (k < Len(tokens) /\ Len(tokens[k + 1]) > W /\ FillerOnly(blobs[r]))
                      => TokensOf(blobs[r + 1]) = << tokens[k + 1] >>
    /\ pc = "greedy_done" => EmittedTokens = tokens

(***************************************************************************)
(* Properties of tokenize_minimal_cpp.                                     *)
(***************************************************************************)
\* C22: every standalone '/' is emitted with a trailing space appended, so
\* no token of the list is the single character '/'.
C22_SlashTokenSpaced ==
    pc = "lexed" => \A k \in 1..Len(tokens) : tokens[k] # <<"/">>

\* The characters from p on that are not whitespace start at SkipSpace.
RECURSIVE SkipSpace(_, _)
SkipSpace(code, p) ==
    IF p < Len(code) /\ isspace(At(code, p)) THEN SkipSpace(code, p + 1) ELSE p

\* Where the tokens lie in the text if each one starts at the first
\* character after its predecessor that is not whitespace: the k-th entry is
\* <<b, e>>, the token being the characters b..e-1.
RECURSIVE SpansFrom(_, _, _, _)
SpansFrom(code, toks, k, p) ==
    IF k > Len(toks) THEN << >>
    ELSE LET b == SkipSpace(code, p)
             e == b + Len(toks[k])
         IN  << <<b, e>> >> \o SpansFrom(code, toks, k + 1, e)

TokenSpans == SpansFrom(code_text, tokens, 1, 0)

\* The punctuators of more than one character.
PunctuatorSet ==
    { <<">", ">", "=">>, <<"<", "<", "=">>, <<"-", ">", "*">>, <<":", ":">>, <<"-", ">">>,
      <<"+", "+">>, <<"-", "-">>, <<"<", "<">>, <<">", ">">>, <<"&", "&">>, <<"|", "|">>,
      <<"=", "=">>, <<"!", "=">>, <<"<", "=">>, <<">", "=">>, <<"+", "=">>, <<"-", "=">>,
      <<"*", "=">>, <<"/", "=">>, <<"%", "=">>, <<"&", "=">>, <<"|", "=">>, <<"^", "=">>,
      <<"#", "#">> }

\* The character starts no literal, identifier or number.
IsPunctChar(c) ==
    ~isspace(c) /\ ~is_ident_start(c) /\ ~isdigit(c) /\ c \notin {"\"", "'"}

\* The longest punctuator found at b, or the one character at b.
LongestPunct(code, b) ==
    LET M == { q \in PunctuatorSet : b + Len(q) <= Len(code) /\ Slice(code, b, b + Len(q)) = q }
    IN  IF M = {} THEN << At(code, b) >>
        ELSE CHOOSE q \in M : \A q2 \in M : Len(q2) <= Len(q)

IsSpacePiece(q) == q.kind = "space"

\* No two lexemes of the source touch.
LexemesSeparated ==
    \A x \in 1..(Len(pieces) - 1) : IsSpacePiece(pieces[x]) \/ IsSpacePiece(pieces[x + 1])

LexemeTexts ==
    LET ls == SelectSeq(pieces, LAMBDA q : ~IsSpacePiece(q)) IN [k \in 1..Len(ls) |-> ls[k].text]

\* C25: the classes are tried in the order raw string, string literal,
\* character literal, identifier, number, punctuator, single character, and
\* a punctuator is matched at its longest.  Lexemes of a known class that do
\* not touch are each one token, literals with their prefix included; u8
\* directly before a string or a raw string is that literal's prefix, and
\* u8 or R directly before a character literal is an identifier of its own;
\* and every token that starts at a punctuator character is the longest
\* punctuator found there, or that one character.
C25_PriorityAndLongestMatch ==
    pc = "lexed" =>
        /\ (LexemesSeparated /\ \A x \in 1..Len(pieces) : pieces[x].kind # "text")
               => tokens = LexemeTexts
        /\ (Len(pieces) = 2 /\ pieces[1].text = <<"u", "8">>
                /\ pieces[2].kind \in {"string", "raw"})
               => tokens = << code_text >>
        /\ (Len(pieces) = 2 /\ pieces[1].kind = "identifier" /\ pieces[2].kind = "char")
               => tokens = << pieces[1].text, pieces[2].text >>
        /\ \A k \in 1..Len(tokens) :
               LET b == TokenSpans[k][1]
               IN  (b < Len(code_text) /\ IsPunctChar(At(code_text, b)))
                       => tokens[k] = LongestPunct(code_text, b)

\* Two punctuators that touch have been read as one of three characters.
C25_Witness ==
    /\ pc = "lexed"
    /\ Len(pieces) = 2 /\ pieces[1].kind = "punctuator" /\ pieces[2].kind = "single"
    /\ tokens = << <<">", ">", "=">> >>

\* The text is a literal: a quote after at most a prefix of u8, u, U, L, R.
IsLiteralText(t) ==
    \E y \in 1..Len(t) :
        /\ t[y] \in {"\"", "'"}
        /\ \A z \in 1..(y - 1) : t[z] \in {"u", "8", "U", "L", "R"}

\* The character at index p of the text lies in one of the spans.
Covered(spans, p) == \E k \in 1..Len(spans) : spans[k][1] <= p /\ p < spans[k][2]

\* The text without the characters that lie in no span.
RECURSIVE CoveredText(_, _, _)
CoveredText(code, spans, p) ==
    IF p >= Len(code) THEN << >>
    ELSE (IF Covered(spans, p) THEN << At(code, p) >> ELSE << >>)
         \o CoveredText(code, spans, p + 1)

RECURSIVE Concatenation(_, _)
Concatenation(toks, k) ==
    IF k > Len(toks) THEN << >> ELSE toks[k] \o Concatenation(toks, k + 1)

RowSolved == pc \in {"loop", "done"} /\ row >= 1 /\ row <= H /\ dp # << >>

\* The context of the row just solved: it started at taken - J.
LastRow ==
    RowContext(tokens, W, H, dens01, zero, stream, taken - optimal_state[2], row - 1)

\* dp[i][j][k] of the row just solved.
Dp(i, j, k) == dp[i + 1][j + 1][k + 1]

SetMax(S) == CHOOSE x \in S : \A y \in S : y <= x

\* The columns of a blob of text seg placed at column i whose character
\* density equals the target.
Matches(cx, i, seg) ==
    Cardinality({ t \in 0..(Len(seg) - 1) :
                     desired_at(cx.want, i + t) = density_of(cx.zero, seg[t + 1]) })

\* The j-th token of the row (j >= 1) and whether the token after it needs a
\* separator.
RowToken(cx, j) == cx.toks[cx.taken + j]

RequiresSep(cx, j) ==
    /\ cx.taken + j < Len(cx.toks)
    /\ needs_separator(cx.toks[cx.taken + j], cx.toks[cx.taken + j + 1])

\* The last blobs a sequence that fills [0, i) with j tokens and ends in type
\* k can have: the state the sequence before the blob ends in, and the
\* blob's text.  A comment's interior is a space where the target is 0 and
\* a letter elsewhere.
LastBlobs(cx, i, j, k) ==
    IF k = 0
    THEN { [from |-> <<i - 1, j, pk>>, seg |-> <<" ">>] : pk \in { q \in 0..3 : i >= 1 } }
    ELSE IF k = 1
    THEN { [from |-> <<i - L, j, pk>>, seg |-> CommentSeg(cx, i - L, L, 0)] :
              L \in 4..Min2(MX_COMMENT_LENGTH, i), pk \in 0..3 }
    ELSE IF j >= 1 /\ j <= cx.tl /\ Len(RowToken(cx, j)) <= i
                   /\ (k = 2) = RequiresSep(cx, j)
    THEN { [from |-> <<i - Len(RowToken(cx, j)), j - 1, pk>>, seg |-> RowToken(cx, j)] :
              pk \in {0, 1, 3} }
    ELSE {}

\* The best number of matching columns over the sequences that end in one of
\* the last blobs, given the best numbers best(i, j, k) of the shorter
\* sequences; NEG_INF when there is no such sequence.  The empty sequence
\* fills [0, 0) and counts as ending in type 0.
BestOver(cx, i, j, k, best(_, _, _)) ==
    IF i = 0 THEN (IF j = 0 /\ k = 0 THEN 0 ELSE NEG_INF)
    ELSE LET cands == { best(b.from[1], b.from[2], b.from[3])
                            + Matches(cx, b.from[1], b.seg) :
                        b \in { c \in LastBlobs(cx, i, j, k) :
                                   best(c.from[1], c.from[2], c.from[3]) # NEG_INF } }
         IN  IF cands = {} THEN NEG_INF ELSE SetMax(cands)

\* dp is the table of best numbers: every sequence of blobs is the empty
\* one or a shorter sequence followed by its last blob, so the table of the
\* maxima over all sequences is the one table that BestOver maps to itself.
DpIsBest(cx) ==
    \A i \in 0..(cx.WB - 1) : \A j \in 0..cx.tl : \A k \in 0..3 :
        Dp(i, j, k) = BestOver(cx, i, j, k, Dp)

DpIsBestDefaultMap ==
    (RowSolved /\ zero = default_ascii_density_01) => DpIsBest(LastRow)

\* The states (i, j, k) of the selection range with j >= m that are
\* reachable in the row just solved.
Reachable(cx, m) ==
    { s \in (iStart(cx.W)..(cx.WB - 1)) \X (m..Min2(cx.tl, cx.WB - 1)) \X (0..3) :
         Dp(s[1], s[2], s[3]) # NEG_INF }

\* The token-count floors that leave a reachable state.
Floors(cx) == { m \in 0..Min2(MN_TOKENS, cx.tl) : Reachable(cx, m) # {} }

\* The largest dp over a set of states.
BestOf(sts) == SetMax({ Dp(s[1], s[2], s[3]) : s \in sts })

\* The states of the accepted floor whose dp is within W/10 of the best.
Relaxed(cx) ==
    LET sts == Reachable(cx, SetMax(Floors(cx)))
    IN  { s \in sts : Dp(s[1], s[2], s[3]) >= BestOf(sts) - (cx.W \div 10) }

\* C24: with m the largest floor in min(MN_TOKENS, tokens_left)..0 that
\* leaves a reachable state with i in [max(0, W - shoot), W_BOUND) and j in
\* [m, J_max], and best the largest dp over those states, the accepted
\* state has the largest token count J for which some of those states has
\* dp >= best - W/10, and its dp is the largest among the states with that J.
C24_RowSelection ==
    RowSolved =>
        LET cx == LastRow
        IN  /\ Floors(cx) # {}
            /\ LET J == SetMax({ s[2] : s \in Relaxed(cx) })
               IN  /\ optimal_state \in Reachable(cx, SetMax(Floors(cx)))
                   /\ optimal_state[2] = J
                   /\ Dp(optimal_state[1], J, optimal_state[3])
                          = BestOf({ s \in Reachable(cx, J) : s[2] = J })

\* A row whose accepted state holds a token and scores less than the best
\* state of its floor, which holds fewer tokens.
C24_Witness ==
    /\ RowSolved
    /\ optimal_state[2] >= 1
    /\ Dp(optimal_state[1], optimal_state[2], optimal_state[3])
           < BestOf(Reachable(LastRow, SetMax(Floors(LastRow))))

\* The image-band lines written so far: the first H lines of waifu.
ImageBandLines == SubSeq(waifu, 1, Min2(Len(waifu), H))

\* C26: under the default density map every image-band line has length
\* exactly W_BOUND - 1 = W + shoot - 1, and the accepted state of every image
\* row has i = W_BOUND - 1.
C26_ImageLineLength ==
    (pc \in {"loop", "done"} /\ zero = default_ascii_density_01) =>
        /\ \A r \in 1..Len(ImageBandLines) : Len(ImageBandLines[r]) = W + shoot - 1
        /\ RowSolved => optimal_state[1] = W_BOUND(W) - 1

\* A finished run under the default map with MaxH image rows, among them a
\* row that holds a token and a row that holds a comment.
C26_Witness ==
    /\ pc = "done" /\ zero = default_ascii_density_01
    /\ H = MaxH /\ Len(ImageBandLines) = MaxH
    /\ \E r \in 1..MaxH : \E b \in 1..Len(blobs[r]) : IsToken(blobs[r][b])
    /\ \E r \in 1..MaxH : \E b \in 1..Len(blobs[r]) : IsComment(blobs[r][b])

\* The columns the next m tokens from tkn on take with the separators they
\* require between them.
FitLength(toks, tkn, m) ==
    LET lens == [x \in 1..m |-> Len(toks[tkn + x])]
        Sum[x \in 0..m] == IF x = 0 THEN 0 ELSE Sum[x - 1] + lens[x]
    IN  Sum[m] + Cardinality({ x \in 1..(m - 1) :
                                  needs_separator(toks[tkn + x], toks[tkn + x + 1]) })

\* C27: an iteration of the loop with row < H and a token still unemitted
\* consumes at least one token, and at least min(MN_TOKENS, tokens_left)
\* tokens when that many next tokens with their required separators fit in
\* fewer than W_BOUND columns; a row that consumes no token is a row that
\* started with no token left.
C27_ImageBandProgress ==
    [][ (pc = "loop" /\ row < H /\ row' = row + 1) =>
            LET tokens_left == Len(tokens) - taken
                m == Min2(MN_TOKENS, tokens_left)
            IN  /\ tokens_left >= 1 => taken' >= taken + 1
                /\ (tokens_left >= 1 /\ FitLength(tokens, taken, m) < W_BOUND(W))
                       => taken' >= taken + m
                /\ taken' = taken => tokens_left = 0 ]_vars

\* An image row that started with MN_TOKENS tokens left that do not fit one
\* row, and holds at least one of them.
C27_Witness ==
    /\ RowSolved
    /\ LastRow.tl >= MN_TOKENS
    /\ FitLength(tokens, LastRow.taken, MN_TOKENS) >= W_BOUND(W)
    /\ optimal_state[2] >= 1

\* back_point[i][j][k] of the row just solved.
BackPoint(st) == back_point[st[1] + 1][st[2] + 1][st[3] + 1]

\* The back-pointer chain from st reaches (0, 0, 0) in at most n steps
\* without meeting the sentinel.
RECURSIVE ChainReachesStart(_, _)
ChainReachesStart(st, n) ==
    IF st = <<0, 0, 0>> THEN TRUE
    ELSE IF n = 0 \/ BackPoint(st) = Sentinel THEN FALSE
    ELSE ChainReachesStart(BackPoint(st), n - 1)

\* C28: after an image row, the back-pointer chain from the accepted state
\* (i, J, k) reaches (0, 0, 0) without meeting the sentinel; the row written
\* has length i and holds J tokens; and under the default density map the
\* number of its columns whose character density equals the target is
\* dp[i][J][k].
C28_ReconstructionConsistent ==
    RowSolved =>
        LET cx == LastRow
            i  == optimal_state[1]
            J  == optimal_state[2]
            k  == optimal_state[3]
        IN  /\ ChainReachesStart(optimal_state, 2 * cx.WB)
            /\ Len(waifu[row]) = i
            /\ Len(TokensOf(blobs[row])) = J
            /\ zero = default_ascii_density_01
                   => Matches(cx, 0, waifu[row]) = Dp(i, J, k)

\* A row under the default map, solved with coins of both values, that holds
\* a token, a space and a comment with a letter in it.
C28_Witness ==
    /\ RowSolved /\ zero = default_ascii_density_01
    /\ {coin(stream, p) : p \in 0..(Len(stream) - 1)} = {0, 1}
    /\ \E b \in 1..Len(blobs[row]) : IsToken(blobs[row][b])
    /\ \E b \in 1..Len(blobs[row]) : blobs[row][b].kind = "space"
    /\ \E b \in 1..Len(blobs[row]) :
          /\ IsComment(blobs[row][b])
          /\ \E t \in 3..(Len(blobs[row][b].text) - 2) : blobs[row][b].text[t] # " "

\* Other random streams: every coin 0, every coin 1, and the two in turn.
OtherStreams == { <<0>>, <<1>>, <<0, 1>> }

\* One image row, row n - 1, of a second run with the random stream strm,
\* from the run's state before it.  Every stage is computed once: a stage is
\* bound to the one element of a set.
SecondRow(strm, before, n) ==
    LET Result(cx, acc, chosen, rec) ==
            [taken |-> before.taken + chosen[2], pos |-> rec.pos,
             dp |-> acc.dp, bp |-> acc.bp, st |-> chosen,
             text |-> RowText(rec.blobs), ntok |-> Len(TokensOf(rec.blobs))]
    IN  CHOOSE r \in
            UNION { UNION { UNION { { Result(cx, acc, chosen, rec) :
                        rec \in { Reconstruct(cx, acc, chosen) } } :
                    chosen \in { SelectState(cx, acc) } } :
                acc \in { SolveRow(cx, before.pos) } } :
            cx \in { RowContext(tokens, W, H, dens01, zero, strm, before.taken, n - 1) } } :
            TRUE

\* A second run of the image band on the same tokens, art and density map
\* with the random stream strm: its state after n image rows.
RECURSIVE SecondRun(_, _)
SecondRun(strm, n) ==
    IF n = 0
    THEN [taken |-> 0, pos |-> 0, dp |-> << >>, bp |-> << >>, st |-> <<0, 0, 0>>,
          text |-> << >>, ntok |-> 0]
    ELSE CHOOSE r \in { SecondRow(strm, before, n) :
                           before \in { SecondRun(strm, n - 1) } } : TRUE

\* C29: a second run on the same token list, art and density map with other
\* random choices has, on every image row, the same dp scores and the same
\* accepted state (i, J, k), hence the same number of tokens and the same
\* length of the row, and the same taken after the row (after row H: when
\* the overflow tail starts).
C29_RandomStreamIndependence ==
    RowSolved =>
        \A strm \in OtherStreams : \A second \in { SecondRun(strm, row) } :
            /\ second.dp = dp
            /\ second.st = optimal_state
            /\ second.ntok = Len(TokensOf(blobs[row]))
            /\ Len(second.text) = Len(waifu[row])
            /\ second.taken = taken

\* The last image row of a run, holding a token, for which a second run has
\* other back-pointers and writes another text.
C29_Witness ==
    /\ RowSolved /\ row = H /\ row = MaxH
    /\ optimal_state[2] >= 1
    /\ \E strm \in OtherStreams : \E second \in { SecondRun(strm, row) } :
          /\ second.bp # back_point
          /\ second.text # waifu[row]

====
